---- MODULE Spec2Model ----
(***************************************************************************)
(* A model of dissect.ntfs, the read-only NTFS parser.                     *)
(*                                                                         *)
(* Every variable holds the frame of one operation of the library (its     *)
(* arguments, locals and position) or the object it works on.  Each        *)
(* specification below starts one operation on inputs drawn from bounded   *)
(* sets and leaves the other frames idle.                                  *)
(*                                                                         *)
(* Byte buffers are sequences of 0..255; byte offset o is element o + 1.   *)
(***************************************************************************)
EXTENDS Integers, Sequences, FiniteSets, TLC

VARIABLES
    fx,     \* util.apply_fixup
    dr,     \* attr.AttributeHeader.dataruns
    ix,     \* index.Index: search() and entries()
    nt,     \* ntfs.NTFS.__init__: the $MFT bootstrap
    gp,     \* mft.Mft.get / mft.MftRecord.get on a path
    sg,     \* mft.Mft.segments
    at      \* mft.MftRecord.attributes / attr.AttributeList.attributes

vars == <<fx, dr, ix, nt, gp, sg, at>>

(***************************************************************************)
(* Generic helpers                                                         *)
(***************************************************************************)
Idle == [pc |-> "idle"]

Range(s) == {s[i] : i \in 1..Len(s)}

RECURSIVE Pow2(_)
Pow2(n) == IF n = 0 THEN 1 ELSE 2 * Pow2(n - 1)

RECURSIVE SumSeq(_)
SumSeq(s) == IF s = <<>> THEN 0 ELSE Head(s) + SumSeq(Tail(s))

RECURSIVE Concat(_)
Concat(ss) == IF ss = <<>> THEN <<>> ELSE Head(ss) \o Concat(Tail(ss))

\* buf[a:b] of Python: the bytes at offsets a .. b-1, cut at the end of buf
Slice(buf, a, b) ==
    LET hi == IF b < Len(buf) THEN b ELSE Len(buf)
    IN  IF a >= hi THEN <<>> ELSE [i \in 1..(hi - a) |-> buf[a + i]]

\* struct.unpack("<H", ...) of the two bytes at offset o
U16(buf, o) == buf[o + 1] + 256 * buf[o + 2]

(***************************************************************************)
(* util.apply_fixup                                                        *)
(***************************************************************************)
SECTOR_SIZE == 512
SECTOR_SHIFT == 9

\* Bounds of the blocks tried
MaxSectors == 3

\* len(data) >> SECTOR_SHIFT
ShiftRight(n, k) == n \div Pow2(k)

\* The words planted in the blocks: the update sequence number, a torn sector
\* tail that differs from it in the high byte only, and the saved tails.
PlantedWords == [sample |-> 2, torn |-> 258, saved |-> {255, 510}]

\* A block of n sectors and `extra` trailing bytes: zeros, with fixup offset F
\* at bytes 4..5, the fixup array (sample, then repl) at F, and `tails` as the
\* last two bytes of each sector.  What is written later wins where they
\* overlap, as on disk, where the sector tails are planted last.
MkBlock(n, extra, F, repl, tails) ==
    LET len == n * SECTOR_SIZE + extra
        arr == <<PlantedWords.sample>> \o repl
        InArr(o) == o >= F /\ o < F + 2 * Len(arr)
        InTail(o) == o < n * SECTOR_SIZE /\ (o % SECTOR_SIZE) >= SECTOR_SIZE - 2
        ByteOf(w, odd) == IF odd THEN w \div 256 ELSE w % 256
    IN  [i \in 1..len |->
            LET o == i - 1
            IN  IF InTail(o)
                  THEN ByteOf(tails[(o \div SECTOR_SIZE) + 1], (o % SECTOR_SIZE) = SECTOR_SIZE - 1)
                ELSE IF o = 4 THEN F % 256
                ELSE IF o = 5 THEN F \div 256
                ELSE IF InArr(o)
                  THEN ByteOf(arr[((o - F) \div 2) + 1], ((o - F) % 2) = 1)
                ELSE 0]

\* The fixup offsets tried for a block of n sectors: the usual one of an MFT
\* record, the largest one the validation accepts, the first one it rejects,
\* and an odd one.
FixupOffsets(n) ==
    {48, SECTOR_SIZE - 2 * (n + 1), SECTOR_SIZE - 2 * (n + 1) + 2, 49}

FixupBlocks ==
    UNION { { MkBlock(n, extra, F, repl, tails) :
                F \in FixupOffsets(n),
                repl \in [1..n -> PlantedWords.saved],
                tails \in [1..n -> {PlantedWords.sample, PlantedWords.torn}] } :
            n \in 0..MaxSectors, extra \in {0, 8} }

\* lines 190-206: copy the input, read the geometry, validate it
FixupEnter(block) ==
    IF Len(block) < 6
    THEN [pc |-> "struct.error", input |-> block, data |-> block]
    ELSE
    LET fixup_offset == U16(block, 4)
        fixup_count == ShiftRight(Len(block), SECTOR_SHIFT)
    IN  IF \/ fixup_offset % 2 = 1
           \/ fixup_offset + (fixup_count + 1) * 2 > SECTOR_SIZE
           \/ fixup_count = 0
           \/ fixup_count * SECTOR_SIZE > Len(block)
        THEN [pc |-> "ValueError", input |-> block, data |-> block]
        ELSE [pc |-> "loop", input |-> block, data |-> block,
              fixup_offset |-> fixup_offset, fixup_count |-> fixup_count,
              sample |-> fixup_offset,          \* view[fixup_offset:][:2]
              fixup |-> fixup_offset + 2,       \* where the view `fixup` starts
              ptr |-> SECTOR_SIZE - 2,          \* where the view `ptr` starts
              i |-> 0]

FixupIter_in_place(f) ==
    IF Slice(f.data, f.ptr, f.ptr + 2) # Slice(f.data, f.sample, f.sample + 2)
    THEN [f EXCEPT !.pc = "ValueError"]
    ELSE LET fixed == [k \in 1..Len(f.data) |->
                         IF k = f.ptr + 1 THEN f.data[f.fixup + 1]
                         ELSE IF k = f.ptr + 2 THEN f.data[f.fixup + 2]
                         ELSE f.data[k]]
         IN  [f EXCEPT !.data = fixed, !.input = fixed,
                       !.fixup = f.fixup + 2, !.ptr = f.ptr + SECTOR_SIZE, !.i = f.i + 1]

FixupIter_unchecked(f) ==
    [f EXCEPT
        !.data = [k \in 1..Len(f.data) |->
                    IF k = f.ptr + 1 THEN f.data[f.fixup + 1]
                    ELSE IF k = f.ptr + 2 THEN f.data[f.fixup + 2]
                    ELSE f.data[k]],
        !.fixup = f.fixup + 2,
        !.ptr = f.ptr + SECTOR_SIZE,
        !.i = f.i + 1]

\* lines 213-219: one pass of the loop.  sample, fixup and ptr are views of
\* the one bytearray `data`: they are read from data as it is now.
FixupIter(f) ==
    IF Slice(f.data, f.ptr, f.ptr + 2) # Slice(f.data, f.sample, f.sample + 2)
    THEN [f EXCEPT !.pc = "ValueError"]
    ELSE [f EXCEPT
            !.data = [k \in 1..Len(f.data) |->
                        IF k = f.ptr + 1 THEN f.data[f.fixup + 1]
                        ELSE IF k = f.ptr + 2 THEN f.data[f.fixup + 2]
                        ELSE f.data[k]],
            !.fixup = f.fixup + 2,
            !.ptr = f.ptr + SECTOR_SIZE,
            !.i = f.i + 1]

FixupCall ==
    /\ fx.pc = "call"
    /\ fx' = FixupEnter(fx.input)
    /\ UNCHANGED <<dr, ix, nt, gp, sg, at>>

FixupSector ==
    /\ fx.pc = "loop"
    /\ fx.i < fx.fixup_count
    /\ fx' = FixupIter(fx)
    /\ UNCHANGED <<dr, ix, nt, gp, sg, at>>

\* line 221
FixupReturn ==
    /\ fx.pc = "loop"
    /\ fx.i = fx.fixup_count
    /\ fx' = [fx EXCEPT !.pc = "returned"]
    /\ UNCHANGED <<dr, ix, nt, gp, sg, at>>

FixupInit ==
    /\ fx \in {[pc |-> "call", input |-> b] : b \in FixupBlocks}
    /\ dr = Idle /\ ix = Idle /\ nt = Idle /\ gp = Idle /\ sg = Idle /\ at = Idle

FixupNext == FixupCall \/ FixupSector \/ FixupReturn

SpecFixup == FixupInit /\ [][FixupNext]_vars

\* What the block holds on entry: sector count, fixup offset, i-th saved tail
InputSectors(f) == ShiftRight(Len(f.input), SECTOR_SHIFT)
InputRepl(f, i) == Slice(f.input, U16(f.input, 4) + 2 + 2 * i, U16(f.input, 4) + 4 + 2 * i)
TailOffset(i) == i * SECTOR_SIZE + SECTOR_SIZE - 2
IsTailByte(f, o) == \E i \in 0..(InputSectors(f) - 1) : o \in {TailOffset(i), TailOffset(i) + 1}

\* C4: every block apply_fixup accepts comes back with the same length, each
\* sector's last two bytes replaced by the replacement value the input block
\* stores for that sector, and every other byte unchanged.
C4_FixupReplacesEveryTail ==
    fx.pc = "returned" =>
        /\ Len(fx.data) = Len(fx.input)
        /\ \A i \in 0..(InputSectors(fx) - 1) :
              Slice(fx.data, TailOffset(i), TailOffset(i) + 2) = InputRepl(fx, i)
        /\ \A o \in 0..(Len(fx.input) - 1) :
              ~IsTailByte(fx, o) => fx.data[o + 1] = fx.input[o + 1]

(***************************************************************************)
(* c_ntfs.varint and attr.AttributeHeader.dataruns                         *)
(***************************************************************************)
\* Bound of the mapping pairs tried
MaxRuns == 3

\* The little-endian value of a byte string
RECURSIVE LEValue(_)
LEValue(buf) == IF buf = <<>> THEN 0 ELSE Head(buf) + 256 * LEValue(Tail(buf))

\* -(2^64 - u) for the 8 bytes of u, computed on the complemented bytes so that
\* the 0xff padding costs nothing
RECURSIVE LEComplement(_)
LEComplement(buf) ==
    IF buf = <<>> THEN 0 ELSE (255 - Head(buf)) + 256 * LEComplement(Tail(buf))

Raised(e) == [ok |-> FALSE, err |-> e, v |-> 0]
Value(x) == [ok |-> TRUE, err |-> "", v |-> x]

varint_zero_padded(buf) ==
    IF buf = <<>> THEN Raised("IndexError")
    ELSE IF Len(buf) > 8 THEN Raised("struct.error")
    ELSE Value(LEValue(buf))

\* c_ntfs.varint: pad to 8 bytes with 0xff when the top bit of the last byte
\* is set and with 0x00 otherwise, then struct.unpack("<q").  An empty buffer
\* fails on buf[-1]; more than 8 bytes fail in struct.unpack.
varint(buf) ==
    IF buf = <<>> THEN Raised("IndexError")
    ELSE IF Len(buf) > 8 THEN Raised("struct.error")
    ELSE LET pad == IF buf[Len(buf)] >= 128 THEN 255 ELSE 0
             b8 == buf \o [i \in 1..(8 - Len(buf)) |-> pad]
         IN  Value(IF b8[8] >= 128 THEN -(LEComplement(b8) + 1) ELSE LEValue(b8))

\* One mapping pair as stored: the bytes of its length and of its LCN delta
\* (none for a sparse run)
PairFields ==
    { [size |-> <<4>>, off |-> <<16>>],             \* 4 clusters, 16 on
      [size |-> <<3>>, off |-> <<240>>],            \* 3 clusters, 16 back
      [size |-> <<5>>, off |-> <<>>],               \* 5 sparse clusters
      [size |-> <<2>>, off |-> <<0, 128>>],         \* 2 clusters, 32768 back
      [size |-> <<0, 1>>, off |-> <<127>>],         \* 256 clusters, 127 on
      [size |-> <<128>>, off |-> <<255, 255, 0>>] } \* length byte 0x80, 65535 on

EncodePair(p) == <<Len(p.size) + 16 * Len(p.off)>> \o p.size \o p.off

RECURSIVE EncodePairs(_)
EncodePairs(ps) == IF ps = <<>> THEN <<>> ELSE EncodePair(Head(ps)) \o EncodePairs(Tail(ps))

PairSeqs == UNION { [1..n -> PairFields] : n \in 0..MaxRuns }

\* What follows the pairs in the record: the zero header byte and then the
\* bytes of the next attribute, or nothing at all (the buffer ends)
PairEndings == { <<0, 17, 1, 1>>, <<>> }

\* lines 197-207
DatarunsEnter(d) ==
    IF d.resident THEN [d EXCEPT !.pc = "TypeError"]
    ELSE [d EXCEPT !.pc = "loop"]

\* lines 210-223: one pass of the loop
DatarunsIter(d) ==
    LET hdr == Slice(d.fh, d.pos, d.pos + 1)
    IN  IF hdr = <<>> THEN [d EXCEPT !.pc = "IndexError"]
        ELSE
        LET value == hdr[1]
            size_len == value % 16
            offset_len == (value \div 16) % 16
            size_buf == Slice(d.fh, d.pos + 1, d.pos + 1 + size_len)
            p1 == d.pos + 1 + Len(size_buf)
            run_size == varint(size_buf)
            off_buf == Slice(d.fh, p1, p1 + offset_len)
            delta == varint(off_buf)
        IN  IF value = 0 THEN [d EXCEPT !.pc = "returned", !.pos = d.pos + 1]
            ELSE IF ~run_size.ok THEN [d EXCEPT !.pc = run_size.err, !.pos = p1]
            ELSE IF offset_len = 0
              THEN [d EXCEPT !.pos = p1,
                             !.runs = Append(d.runs, [sparse |-> TRUE, lcn |-> 0, len |-> run_size.v])]
            ELSE IF ~delta.ok THEN [d EXCEPT !.pc = delta.err, !.pos = p1 + Len(off_buf)]
            ELSE [d EXCEPT !.pos = p1 + Len(off_buf),
                           !.offset = d.offset + delta.v,
                           !.runs = Append(d.runs, [sparse |-> FALSE, lcn |-> d.offset + delta.v,
                                                     len |-> run_size.v])]

DatarunsCall ==
    /\ dr.pc = "call"
    /\ dr' = DatarunsEnter(dr)
    /\ UNCHANGED <<fx, ix, nt, gp, sg, at>>

DatarunsPair ==
    /\ dr.pc = "loop"
    /\ dr' = DatarunsIter(dr)
    /\ UNCHANGED <<fx, ix, nt, gp, sg, at>>

\* pairs is what the buffer was written from; the decoder never reads it
DatarunsInit ==
    /\ dr \in { [pc |-> "call", resident |-> r, pairs |-> ps,
                 fh |-> EncodePairs(ps) \o e, pos |-> 0, runs |-> <<>>, offset |-> 0] :
                ps \in PairSeqs, e \in PairEndings, r \in BOOLEAN }
    /\ fx = Idle /\ ix = Idle /\ nt = Idle /\ gp = Idle /\ sg = Idle /\ at = Idle

DatarunsNext == DatarunsCall \/ DatarunsPair

SpecRuns == DatarunsInit /\ [][DatarunsNext]_vars

\* The two's-complement value of a field of k bytes
SignedField(buf) ==
    IF buf[Len(buf)] >= 128 THEN LEValue(buf) - Pow2(8 * Len(buf)) ELSE LEValue(buf)

\* The sum of the LCN deltas of the first n pairs, sparse pairs adding nothing
RECURSIVE DeltaSum(_, _)
DeltaSum(ps, n) ==
    IF n = 0 THEN 0
    ELSE DeltaSum(ps, n - 1) + (IF ps[n].off = <<>> THEN 0 ELSE SignedField(ps[n].off))

\* C5: the pairs are decoded in order up to the zero header byte, the nibbles
\* of each header delimit the length and the delta, a pair without delta bytes
\* is sparse and leaves the accumulator alone, and every other run's LCN is
\* the sum of the signed deltas so far.
C5_DatarunsDecoded ==
    /\ dr.pc = "loop" =>
          /\ Len(dr.runs) <= Len(dr.pairs)
          /\ dr.offset = DeltaSum(dr.pairs, Len(dr.runs))
          /\ dr.pos = Len(EncodePairs(SubSeq(dr.pairs, 1, Len(dr.runs))))
    /\ dr.pc = "returned" =>
          /\ Len(dr.runs) = Len(dr.pairs)
          /\ dr.pos = Len(EncodePairs(dr.pairs)) + 1
          /\ \A i \in 1..Len(dr.pairs) :
                /\ dr.runs[i].sparse <=> (dr.pairs[i].off = <<>>)
                /\ ~dr.runs[i].sparse => dr.runs[i].lcn = DeltaSum(dr.pairs, i)
                /\ dr.pairs[i].size[Len(dr.pairs[i].size)] < 128
                      => dr.runs[i].len = LEValue(dr.pairs[i].size)

\* a run that follows a sparse run and a run with a negative delta were decoded
C5_Witness ==
    /\ dr.pc = "returned"
    /\ \E i \in 2..Len(dr.runs) :
          /\ dr.runs[i - 1].sparse
          /\ ~dr.runs[i].sparse
          /\ dr.runs[i].lcn # 0
          /\ \E j \in 1..(i - 1) : ~dr.runs[j].sparse /\ dr.runs[j].lcn < 0

(***************************************************************************)
(* exceptions.py, mft.MftRecord.from_bytes / from_fh, mft.Mft.segments     *)
(***************************************************************************)
\* The classes of exceptions.py: all derive from exceptions.Error.
\* ValueError, struct.error, EOFError, IndexError, KeyError and TypeError
\* do not.
NtfsErrors ==
    { "Error", "BrokenIndexError", "BrokenMftError", "FilenameNotAvailableError",
      "FileNotFoundError", "MftNotAvailableError", "IsADirectoryError",
      "NotADirectoryError", "NotAReparsePointError", "VolumeNotAvailableError" }

\* apply_fixup run to its end
RECURSIVE FixupRun(_)
FixupRun(f) ==
    IF f.pc # "loop" THEN f
    ELSE IF f.i < f.fixup_count THEN FixupRun(FixupIter(f))
    ELSE [f EXCEPT !.pc = "returned"]

apply_fixup(data) == FixupRun(FixupEnter(data))

DEFAULT_RECORD_SIZE == 1024

\* Bound of the $MFT streams tried (slots)
MaxSlots == 4

Signature == [FILE |-> <<70, 73, 76, 69>>, BAAD |-> <<66, 65, 65, 68>>,
              INDX |-> <<73, 78, 68, 88>>]

WithSignature(block, sig) ==
    [i \in 1..Len(block) |-> IF i <= 4 THEN sig[i] ELSE block[i]]

\* What a slot of the $MFT stream may hold: a sound record, a slot that does
\* not start with FILE, a record whose second sector is torn, and a record
\* whose fixup offset is odd.
SlotKinds == {"ok", "badsig", "torn", "badoffset"}

SlotBytes(kind) ==
    LET n == DEFAULT_RECORD_SIZE \div SECTOR_SIZE
        sound == [i \in 1..n |-> PlantedWords.sample]
        saved == [i \in 1..n |-> 255]
    IN  CASE kind = "ok" -> WithSignature(MkBlock(n, 0, 48, saved, sound), Signature.FILE)
          [] kind = "badsig" -> WithSignature(MkBlock(n, 0, 48, saved, sound), Signature.BAAD)
          [] kind = "torn" ->
                WithSignature(MkBlock(n, 0, 48, saved, [sound EXCEPT ![n] = PlantedWords.torn]),
                              Signature.FILE)
          [] kind = "badoffset" -> WithSignature(MkBlock(n, 0, 49, saved, sound), Signature.FILE)
          [] OTHER -> <<>>

\* MftRecord.from_bytes (lines 172-180): the exception raised, or a record
from_bytes(data) ==
    IF Slice(data, 0, 4) # Signature.FILE THEN Raised("BrokenMftError")
    ELSE LET f == apply_fixup(data)
         IN  IF f.pc = "returned" THEN Value(0) ELSE Raised(f.pc)

\* MftRecord.from_fh through Mft.get(segment) (lines 96-100, 152-159): the
\* stream is a sequence of slots; a read past its end returns no bytes
MftGet(fh, segment) ==
    from_bytes(IF segment < Len(fh) THEN SlotBytes(fh[segment + 1]) ELSE <<>>)

\* lines 108-109: get(FILE_NUMBER_MFT).size() is the size the $MFT declares
SegmentsEnter(g) ==
    LET r == MftGet(g.fh, 0)
    IN  IF r.ok THEN [g EXCEPT !.pc = "iter"] ELSE [g EXCEPT !.pc = r.err]

\* lines 111-117: one pass of the loop
SegmentsIter(g) ==
    LET r == MftGet(g.fh, g.segment)
        seen == [g EXCEPT !.visited = Append(g.visited, g.segment), !.segment = g.segment + 1]
    IN  IF r.ok THEN [seen EXCEPT !.yielded = Append(g.yielded, g.segment)]
        ELSE IF r.err \in NtfsErrors THEN seen
        ELSE IF r.err = "EOFError" THEN [seen EXCEPT !.pc = "done"]
        ELSE [seen EXCEPT !.pc = r.err]

SegmentsCall ==
    /\ sg.pc = "call"
    /\ sg' = SegmentsEnter(sg)
    /\ UNCHANGED <<fx, dr, ix, nt, gp, at>>

SegmentsSlot ==
    /\ sg.pc = "iter"
    /\ sg.segment < sg.mft_size \div DEFAULT_RECORD_SIZE
    /\ sg' = SegmentsIter(sg)
    /\ UNCHANGED <<fx, dr, ix, nt, gp, at>>

SegmentsDone ==
    /\ sg.pc = "iter"
    /\ sg.segment >= sg.mft_size \div DEFAULT_RECORD_SIZE
    /\ sg' = [sg EXCEPT !.pc = "done"]
    /\ UNCHANGED <<fx, dr, ix, nt, gp, at>>

\* The stream holds 1..MaxSlots slots; the size record 0 declares is the
\* stream's, or one record more (a stream cut short)
SegmentsInit ==
    /\ sg \in { [pc |-> "call", fh |-> f, mft_size |-> (Len(f) + more) * DEFAULT_RECORD_SIZE,
                 segment |-> 0, yielded |-> <<>>, visited |-> <<>>] :
                f \in UNION { [1..n -> SlotKinds] : n \in 1..MaxSlots }, more \in {0, 1} }
    /\ fx = Idle /\ dr = Idle /\ ix = Idle /\ nt = Idle /\ gp = Idle /\ at = Idle

SegmentsNext == SegmentsCall \/ SegmentsSlot \/ SegmentsDone

SpecSegments == SegmentsInit /\ [][SegmentsNext]_vars

\* The slots of a stream that parse as records, in ascending order
RECURSIVE ValidSlots(_, _)
ValidSlots(fh, n) ==
    IF n = 0 THEN <<>>
    ELSE ValidSlots(fh, n - 1) \o (IF fh[n] = "ok" THEN <<n - 1>> ELSE <<>>)

\* C6: with record 0 sound, segments() visits every slot in ascending order,
\* yields exactly the slots that parse and ends normally, whatever is wrong
\* with the other slots.
C6_SegmentsSkipsInvalidSlots ==
    (sg.pc \notin {"idle", "call", "iter"} /\ sg.fh[1] = "ok") =>
        /\ sg.pc = "done"
        /\ sg.visited = [i \in 1..(sg.mft_size \div DEFAULT_RECORD_SIZE) |-> i - 1]
        /\ sg.yielded = ValidSlots(sg.fh, Len(sg.fh))

\* The part of C6 the code keeps: slots without the FILE signature are skipped
C6_SegmentsSkipsBadSignature ==
    (sg.pc \notin {"idle", "call", "iter"} /\ sg.fh[1] = "ok"
        /\ \A i \in 1..Len(sg.fh) : sg.fh[i] \in {"ok", "badsig"}) =>
        /\ sg.pc = "done"
        /\ sg.visited = [i \in 1..(sg.mft_size \div DEFAULT_RECORD_SIZE) |-> i - 1]
        /\ sg.yielded = ValidSlots(sg.fh, Len(sg.fh))

(***************************************************************************)
(* index.py: collation, nodes, _bsearch                                    *)
(***************************************************************************)
COLLATION == [BINARY |-> 0, FILE_NAME |-> 1, NTOFS_ULONG |-> 16]

DEFAULT_INDEX_SIZE == 4096

\* Bounds of the indexes tried: keys in the index, buffers in $INDEX_ALLOCATION
MaxKey == 4
MaxBuffers == 3

\* str.upper() on the ASCII names used here
Upper(str) == [i \in 1..Len(str) |-> IF str[i] >= 97 /\ str[i] <= 122 THEN str[i] - 32 ELSE str[i]]

\* str < str of Python: by code point, a proper prefix first
RECURSIVE StrLess(_, _)
StrLess(a, b) ==
    IF b = <<>> THEN FALSE
    ELSE IF a = <<>> THEN TRUE
    ELSE IF a[1] # b[1] THEN a[1] < b[1]
    ELSE StrLess(Tail(a), Tail(b))

\* lines 359-371.  An entry's key stands for the file name of its $FILE_NAME;
\* an entry without one is too short for buf[64].
_cmp_filename_raw(entry, value) ==
    IF entry.key = <<>> THEN "IndexError"
    ELSE IF StrLess(value, entry.key) THEN "Less"
    ELSE IF value = entry.key THEN "Equal"
    ELSE "Greater"

_cmp_filename(entry, value) ==
    IF entry.key = <<>> THEN "IndexError"
    ELSE LET test_value == Upper(entry.key)
         IN  IF StrLess(value, test_value) THEN "Less"
             ELSE IF value = test_value THEN "Equal"
             ELSE "Greater"

\* lines 374-385
_cmp_ulong(entry, value) ==
    IF Len(entry.key) # 4 THEN "ValueError"
    ELSE LET test_value == LEValue(entry.key)
         IN  IF value < test_value THEN "Less"
             ELSE IF value = test_value THEN "Equal"
             ELSE "Greater"

\* cmp(entry, value) for the comparator picked in search()
Compare(cmp, entry, value) ==
    IF cmp = "_cmp_filename" THEN _cmp_filename(entry, value) ELSE _cmp_ulong(entry, value)

Match == {"Less", "Equal", "Greater"}

\* lines 324-337: the entries of a node up to and including the first END
RECURSIVE _iter_entries(_)
_iter_entries(node) ==
    IF node = <<>> THEN <<>>
    ELSE IF Head(node).is_end THEN <<Head(node)>>
    ELSE <<Head(node)>> \o _iter_entries(Tail(node))

\* the entries before the first END (lines 127-131 and 137-141)
NonEnd(entries) == SelectSeq(entries, LAMBDA e : ~e.is_end)

\* lines 344-356: the loop of _bsearch from (min_idx, max_idx).  end_cmp
\* records whether cmp was called on an END entry.
RECURSIVE _bsearch_loop(_, _, _, _, _)
_bsearch_loop(entries, value, cmp, min_idx, max_idx) ==
    IF min_idx = max_idx THEN [err |-> "", entry |-> entries[min_idx + 1], end_cmp |-> FALSE]
    ELSE LET test_idx == min_idx + ((max_idx - min_idx) \div 2)
             test_entry == entries[test_idx + 1]
             result == Compare(cmp, test_entry, value)
             rest == IF ~test_entry.is_end /\ result = "Greater"
                       THEN _bsearch_loop(entries, value, cmp, test_idx + 1, max_idx)
                     ELSE IF result = "Equal"
                       THEN [err |-> "", entry |-> test_entry, end_cmp |-> FALSE]
                     ELSE _bsearch_loop(entries, value, cmp, min_idx, test_idx)
         IN  IF result \notin Match THEN [err |-> result, end_cmp |-> test_entry.is_end]
             ELSE [rest EXCEPT !.end_cmp = rest.end_cmp \/ test_entry.is_end]

_bsearch_from_second(entries, value, cmp) ==
    IF entries = <<>> THEN [err |-> "IndexError", end_cmp |-> FALSE]
    ELSE _bsearch_loop(entries, value, cmp, IF Len(entries) > 1 THEN 1 ELSE 0, Len(entries) - 1)

\* lines 340-356; an empty list fails on entries[-1]
_bsearch(entries, value, cmp) ==
    IF entries = <<>> THEN [err |-> "IndexError", end_cmp |-> FALSE]
    ELSE _bsearch_loop(entries, value, cmp, 0, Len(entries) - 1)

(***************************************************************************)
(* The indexes tried: B-trees over a sorted set of keys                    *)
(***************************************************************************)
\* File names in FILE_NAME collation order: a, Ab, B, ba, C, cA
NameList == << <<97>>, <<65, 98>>, <<66>>, <<98, 97>>, <<67>>, <<99, 65>> >>

\* The key of the i-th smallest entry under a collation rule: a file name, or
\* the four little-endian bytes of 100 * i
KeyOf(rule, i) ==
    IF rule = COLLATION.NTOFS_ULONG THEN <<(100 * i) % 256, (100 * i) \div 256, 0, 0>>
    ELSE NameList[i]

\* The values searched for: every key, in both cases, and values that lie
\* before, between and after the keys
SearchValues(rule) ==
    IF rule = COLLATION.NTOFS_ULONG
    THEN {100 * i : i \in 1..MaxKey} \cup {50, 250, 100 * MaxKey + 50}
    ELSE {NameList[i] : i \in 1..MaxKey} \cup {Upper(NameList[i]) : i \in 1..MaxKey}
            \cup {<<65, 97>>, <<122>>}

RECURSIVE SortedSeq(_)
SortedSeq(S) ==
    IF S = {} THEN <<>>
    ELSE LET m == CHOOSE x \in S : \A y \in S : x <= y
         IN  <<m>> \o SortedSeq(S \ {m})

\* node_vcn is None (-1 here) unless the entry is a node
KeyEntry(rule, i) ==
    [key |-> KeyOf(rule, i), is_end |-> FALSE, is_node |-> FALSE, node_vcn |-> -1,
     file_reference |-> i]
EndEntry ==
    [key |-> <<>>, is_end |-> TRUE, is_node |-> FALSE, node_vcn |-> -1, file_reference |-> 0]

LeafNode(rule, ids) == [i \in 1..Len(ids) |-> KeyEntry(rule, ids[i])] \o <<EndEntry>>

Buffer(kind, entries) == [kind |-> kind, entries |-> entries]

\* node 0 is the root, node w > 0 the buffer at VCN w - 1
NodeOf(t, w) == IF w = 0 THEN t.root ELSE t.stream[w].entries
IsLeaf(node) == \A i \in 1..Len(node) : ~node[i].is_node

\* The leaf w of t becomes an interior node: the keys at positions sep stay in
\* it, each with a child, the END entry gets a child too, and the children are
\* new buffers at the end of the stream holding the keys in between.
Split(t, w, sep) ==
    LET keys == NonEnd(NodeOf(t, w))
        at_ == SortedSeq(sep)
        m == Len(at_)
        base == Len(t.stream)
        lo(j) == IF j = 1 THEN 0 ELSE at_[j - 1]
        hi(j) == IF j = m + 1 THEN Len(keys) + 1 ELSE at_[j]
        node == [j \in 1..m |-> [keys[at_[j]] EXCEPT !.is_node = TRUE, !.node_vcn = base + j - 1]]
                  \o <<[EndEntry EXCEPT !.is_node = TRUE, !.node_vcn = base + m]>>
        children == [j \in 1..(m + 1) |->
                        Buffer("ok", SubSeq(keys, lo(j) + 1, hi(j) - 1) \o <<EndEntry>>)]
    IN  IF w = 0 THEN [root |-> node, stream |-> t.stream \o children]
        ELSE [root |-> t.root,
              stream |-> [t.stream EXCEPT ![w] = Buffer("ok", node)] \o children]

Splits(t) ==
    UNION { { Split(t, w, sep) :
                sep \in { x \in SUBSET (1..(Len(NodeOf(t, w)) - 1)) :
                            Len(t.stream) + Cardinality(x) + 1 <= MaxBuffers } } :
            w \in { v \in 0..Len(t.stream) : IsLeaf(NodeOf(t, v)) } }

RECURSIVE TreesAfter(_, _)
TreesAfter(T, n) ==
    IF n = 0 THEN T ELSE TreesAfter(T \cup UNION { Splits(t) : t \in T }, n - 1)

VcnOrders(n) == { p \in [1..n -> 1..n] : \A i, j \in 1..n : p[i] = p[j] => i = j }

\* The buffers of t moved to other VCNs: buffer i goes to position p[i]
Renumber(t, p) ==
    LET move(node) == [i \in 1..Len(node) |->
                          IF node[i].is_node
                            THEN [node[i] EXCEPT !.node_vcn = p[node[i].node_vcn + 1] - 1]
                          ELSE node[i]]
    IN  [root |-> move(t.root),
         stream |-> [j \in 1..Len(t.stream) |->
                        LET i == CHOOSE i \in 1..Len(t.stream) : p[i] = j
                        IN  Buffer(t.stream[i].kind, move(t.stream[i].entries))]]

\* Every B-tree of at most MaxBuffers buffers over every set of keys, with the
\* buffers at the VCNs at which splitting put them
GrownTrees(rule) ==
    UNION { TreesAfter({[root |-> LeafNode(rule, SortedSeq(S)), stream |-> <<>>]}, MaxBuffers) :
            S \in SUBSET (1..MaxKey) }

\* The same trees with the buffers at any VCNs
Trees(rule) ==
    UNION { { Renumber(t, p) : p \in VcnOrders(Len(t.stream)) } : t \in GrownTrees(rule) }

\* Trees with one buffer broken: its magic overwritten, or a sector of it torn
BrokenTrees(rule) ==
    UNION { { [t EXCEPT !.stream[i].kind = k] : i \in 1..Len(t.stream), k \in {"badmagic", "torn"} } :
            t \in GrownTrees(rule) }

(***************************************************************************)
(* index.Index: index_buffer, search, entries                              *)
(***************************************************************************)
IndexBufferKinds == {"ok", "badmagic", "torn"}

\* The bytes of an index buffer of each kind, as far as IndexBuffer.__init__
\* looks at them: the magic and the fixup-protected sectors
IndexBufferBytes(kind) ==
    LET n == DEFAULT_INDEX_SIZE \div SECTOR_SIZE
        sound == [i \in 1..n |-> PlantedWords.sample]
        saved == [i \in 1..n |-> 255]
    IN  CASE kind = "ok" -> WithSignature(MkBlock(n, 0, 40, saved, sound), Signature.INDX)
          [] kind = "badmagic" -> WithSignature(MkBlock(n, 0, 40, saved, sound), Signature.BAAD)
          [] kind = "torn" ->
                WithSignature(MkBlock(n, 0, 40, saved, [sound EXCEPT ![n] = PlantedWords.torn]),
                              Signature.INDX)

\* IndexBuffer.__init__ lines 217-223 on a full read: the exception, or none
IndexBufferParse(buf) ==
    IF Slice(buf, 0, 4) # Signature.INDX THEN "BrokenIndexError"
    ELSE LET f == apply_fixup(buf)
         IN  IF f.pc = "returned" THEN "" ELSE f.pc

IndexBufferOutcome == [k \in IndexBufferKinds |-> IndexBufferParse(IndexBufferBytes(k))]

\* Index.index_buffer (lines 75-78) and IndexBuffer.__init__ (lines 214-224).
\* With bytes-per-buffer equal to the cluster size, the buffer at VCN v is the
\* v-th of the stream; a read at or past the end of the stream is short.
index_buffer(x, vcn) ==
    IF ~x.has_stream THEN [err |-> "FileNotFoundError"]
    ELSE IF vcn < 0 \/ vcn >= Len(x.stream) THEN [err |-> "EOFError"]
    ELSE LET e == IndexBufferOutcome[x.stream[vcn + 1].kind]
         IN  IF e # "" THEN [err |-> e]
             ELSE [err |-> "", entries |-> _iter_entries(x.stream[vcn + 1].entries)]

\* lines 97-110
SearchEnter(x) ==
    LET cmp == CASE x.collation_rule = COLLATION.FILE_NAME -> "_cmp_filename"
                 [] x.collation_rule = COLLATION.NTOFS_ULONG -> "_cmp_ulong"
                 [] OTHER -> "None"
    IN  IF cmp = "None" THEN [x EXCEPT !.pc = "NotImplementedError"]
        ELSE [x EXCEPT !.pc = "loop",
                       !.cmp = cmp,
                       !.search_value = IF cmp = "_cmp_filename" THEN Upper(x.value) ELSE x.value,
                       !.entries = _iter_entries(x.root)]

\* lines 112-117: one pass of the loop
SearchIter(x) ==
    LET b == _bsearch(x.entries, x.search_value, x.cmp)
    IN  IF b.err # "" THEN [x EXCEPT !.pc = b.err, !.end_cmp = x.end_cmp \/ b.end_cmp]
        ELSE
        LET entry == b.entry
            y == [x EXCEPT !.entry = entry, !.end_cmp = x.end_cmp \/ b.end_cmp]
            c == Compare(x.cmp, entry, x.search_value)
            buf == index_buffer(x, entry.node_vcn)
        IN  IF ~entry.is_node THEN [y EXCEPT !.pc = "check"]
            ELSE IF ~entry.is_end /\ c \notin Match THEN [y EXCEPT !.pc = c]
            ELSE IF ~entry.is_end /\ c = "Equal" THEN [y EXCEPT !.pc = "check"]
            ELSE IF buf.err # "" THEN [y EXCEPT !.pc = buf.err]
            ELSE [y EXCEPT !.entries = buf.entries,
                           !.visited = Append(x.visited, entry.node_vcn)]

\* lines 119-122
SearchExit(x) ==
    LET c == Compare(x.cmp, x.entry, x.search_value)
    IN  IF ~x.exact THEN [x EXCEPT !.pc = "returned"]
        ELSE IF x.entry.is_end THEN [x EXCEPT !.pc = "KeyError"]
        ELSE IF c \notin Match THEN [x EXCEPT !.pc = c]
        ELSE IF c # "Equal" THEN [x EXCEPT !.pc = "KeyError"]
        ELSE [x EXCEPT !.pc = "returned"]

\* lines 127-131: the root's entries, then on to the buffers if there are any
EntriesEnter(x) ==
    [x EXCEPT !.pc = IF x.has_stream THEN "buffers" ELSE "done",
              !.out = [i \in 1..Len(NonEnd(_iter_entries(x.root))) |->
                          [entry |-> NonEnd(_iter_entries(x.root))[i], node |-> -1]]]

EntriesIter_newest_first(x) ==
    LET buf == index_buffer(x, x.vcn)
    IN  IF buf.err = "EOFError" THEN [x EXCEPT !.pc = "done"]
        ELSE IF buf.err \in NtfsErrors THEN [x EXCEPT !.vcn = x.vcn + 1]
        ELSE IF buf.err # "" THEN [x EXCEPT !.pc = buf.err]
        ELSE [x EXCEPT !.vcn = x.vcn + 1,
                       !.out = [i \in 1..Len(NonEnd(buf.entries)) |->
                                   [entry |-> NonEnd(buf.entries)[i], node |-> x.vcn]] \o x.out]

\* lines 135-147: one pass of the loop.  node is the VCN an entry came from
\* (-1 for the root).
EntriesIter(x) ==
    LET buf == index_buffer(x, x.vcn)
    IN  IF buf.err = "EOFError" THEN [x EXCEPT !.pc = "done"]
        ELSE IF buf.err \in NtfsErrors THEN [x EXCEPT !.vcn = x.vcn + 1]
        ELSE IF buf.err # "" THEN [x EXCEPT !.pc = buf.err]
        ELSE [x EXCEPT !.vcn = x.vcn + 1,
                       !.out = x.out \o [i \in 1..Len(NonEnd(buf.entries)) |->
                                           [entry |-> NonEnd(buf.entries)[i], node |-> x.vcn]]]

SearchCall ==
    /\ ix.pc = "call" /\ ix.op = "search"
    /\ ix' = SearchEnter(ix)
    /\ UNCHANGED <<fx, dr, nt, gp, sg, at>>

SearchLoop ==
    /\ ix.pc = "loop"
    /\ ix' = SearchIter(ix)
    /\ UNCHANGED <<fx, dr, nt, gp, sg, at>>

SearchCheck ==
    /\ ix.pc = "check"
    /\ ix' = SearchExit(ix)
    /\ UNCHANGED <<fx, dr, nt, gp, sg, at>>

EntriesCall ==
    /\ ix.pc = "call" /\ ix.op = "entries"
    /\ ix' = EntriesEnter(ix)
    /\ UNCHANGED <<fx, dr, nt, gp, sg, at>>

EntriesBuffer ==
    /\ ix.pc = "buffers"
    /\ ix' = EntriesIter(ix)
    /\ UNCHANGED <<fx, dr, nt, gp, sg, at>>

\* An Index over tree t, about to run search(value, exact) or entries()
IndexFrame(rule, t, op, value, exact) ==
    [pc |-> "call", op |-> op, collation_rule |-> rule, root |-> t.root, stream |-> t.stream,
     has_stream |-> t.stream # <<>>, value |-> value, exact |-> exact,
     cmp |-> "None", search_value |-> value, entries |-> <<>>, entry |-> EndEntry,
     visited |-> <<>>, end_cmp |-> FALSE, vcn |-> 0, out |-> <<>>]

\* entries() takes no value
NoValue(rule) == IF rule = COLLATION.NTOFS_ULONG THEN 0 ELSE <<>>

IndexFrames(rule, trees) ==
    { IndexFrame(rule, t, "search", v, TRUE) : t \in trees, v \in SearchValues(rule) }
        \cup { IndexFrame(rule, t, "entries", NoValue(rule), TRUE) : t \in trees }

Rules == {COLLATION.FILE_NAME, COLLATION.NTOFS_ULONG}

IndexInit ==
    /\ \E rule \in Rules : ix \in IndexFrames(rule, Trees(rule))
    /\ fx = Idle /\ dr = Idle /\ nt = Idle /\ gp = Idle /\ sg = Idle /\ at = Idle

BrokenIndexInit ==
    /\ \E rule \in Rules : ix \in IndexFrames(rule, BrokenTrees(rule))
    /\ fx = Idle /\ dr = Idle /\ nt = Idle /\ gp = Idle /\ sg = Idle /\ at = Idle

IndexNext == SearchCall \/ SearchLoop \/ SearchCheck \/ EntriesCall \/ EntriesBuffer

SpecIndex == IndexInit /\ [][IndexNext]_vars

SpecBrokenIndex == BrokenIndexInit /\ [][IndexNext]_vars

\* entries() run to its end
RECURSIVE EntriesRun(_)
EntriesRun(x) == IF x.pc = "buffers" THEN EntriesRun(EntriesIter(x)) ELSE x

entries(x) == EntriesRun(EntriesEnter(x))

\* Equality and order of keys under a collation rule
KeysEqual(rule, key, k) ==
    IF rule = COLLATION.FILE_NAME THEN Upper(key) = Upper(k) ELSE LEValue(key) = k

KeyLess(rule, a, b) ==
    IF rule = COLLATION.FILE_NAME THEN StrLess(Upper(a), Upper(b)) ELSE LEValue(a) < LEValue(b)

SearchEnded == ix.pc # "idle" /\ ix.op = "search" /\ ix.pc \notin {"call", "loop", "check"}
EntriesEnded == ix.pc # "idle" /\ ix.op = "entries" /\ ix.pc \notin {"call", "buffers"}

\* C1: on a well-formed index search(k, exact=True) returns an entry whose key
\* equals k under the collation rule (case-insensitively for FILE_NAME) exactly
\* when entries() yields such an entry, and the entry returned is one of those;
\* when entries() yields none it raises KeyError.
C1_SearchIffInEntries ==
    SearchEnded /\ ix.exact =>
        LET all == entries(ix).out
            hits == { i \in 1..Len(all) : KeysEqual(ix.collation_rule, all[i].entry.key, ix.value) }
        IN  /\ entries(ix).pc = "done"
            /\ hits # {} => /\ ix.pc = "returned"
                            /\ \E i \in hits : all[i].entry = ix.entry
            /\ hits = {} => ix.pc = "KeyError"

\* search() went down two levels and found a file name stored in another case
C1_Witness ==
    /\ SearchEnded /\ ix.exact /\ ix.pc = "returned"
    /\ Len(ix.visited) >= 2
    /\ ix.collation_rule = COLLATION.FILE_NAME
    /\ ix.value # ix.entry.key
    /\ KeysEqual(ix.collation_rule, ix.entry.key, ix.value)

\* search() went down to a leaf and found no entry
C1_WitnessMiss ==
    /\ SearchEnded /\ ix.exact /\ ix.pc = "KeyError"
    /\ Len(ix.visited) >= 1

\* The non-END entries of the intact buffers, in VCN order
RECURSIVE IntactEntries(_, _)
IntactEntries(stream, vcn) ==
    IF vcn >= Len(stream) THEN <<>>
    ELSE (IF stream[vcn + 1].kind = "ok"
            THEN [i \in 1..Len(NonEnd(_iter_entries(stream[vcn + 1].entries))) |->
                     [entry |-> NonEnd(_iter_entries(stream[vcn + 1].entries))[i], node |-> vcn]]
          ELSE <<>>)
         \o IntactEntries(stream, vcn + 1)

\* C7: entries() yields the root's non-END entries and then those of the
\* buffers at VCN 0, 1, 2, ... up to the end of the stream; a buffer without
\* the INDX magic or with a failing fixup is skipped and the intact buffers
\* after it are still yielded.
C7_EntriesSkipsBrokenBuffers ==
    EntriesEnded =>
        /\ ix.pc = "done"
        /\ ix.out = [i \in 1..Len(NonEnd(_iter_entries(ix.root))) |->
                        [entry |-> NonEnd(_iter_entries(ix.root))[i], node |-> -1]]
                    \o IntactEntries(ix.stream, 0)

\* The part of C7 that holds: a buffer without the INDX magic is skipped
C7_EntriesSkipsBadMagic ==
    EntriesEnded /\ (\A i \in 1..Len(ix.stream) : ix.stream[i].kind # "torn") =>
        /\ ix.pc = "done"
        /\ ix.out = [i \in 1..Len(NonEnd(_iter_entries(ix.root))) |->
                        [entry |-> NonEnd(_iter_entries(ix.root))[i], node |-> -1]]
                    \o IntactEntries(ix.stream, 0)

\* C8 as stated: no entry yielded by entries() has a key less than the key of
\* the entry yielded before it.
C8_EntriesInCollationOrder ==
    ix.pc # "idle" /\ ix.op = "entries" =>
        \A i \in 2..Len(ix.out) :
            ~KeyLess(ix.collation_rule, ix.out[i].entry.key, ix.out[i - 1].entry.key)

\* C8: entries() yields the root's entries first and then each buffer's in
\* ascending VCN order, and the entries that come from one node are in
\* collation order.
C8_EntriesInNodeOrder ==
    ix.pc # "idle" /\ ix.op = "entries" =>
        \A i \in 2..Len(ix.out) :
            /\ ix.out[i - 1].node <= ix.out[i].node
            /\ ix.out[i - 1].node = ix.out[i].node =>
                   ~KeyLess(ix.collation_rule, ix.out[i].entry.key, ix.out[i - 1].entry.key)

\* entries() ended on an index with buffers, having yielded two entries of one
\* node and a key smaller than the one before it
C8_Witness ==
    /\ EntriesEnded /\ ix.pc = "done" /\ ix.stream # <<>>
    /\ \E i \in 2..Len(ix.out) : ix.out[i - 1].node = ix.out[i].node
    /\ \E i \in 2..Len(ix.out) :
           KeyLess(ix.collation_rule, ix.out[i].entry.key, ix.out[i - 1].entry.key)

(***************************************************************************)
(* ntfs.NTFS.__init__: opening $MFT from the volume                        *)
(***************************************************************************)
DEFAULT_CLUSTER_SIZE == 4096

\* Bounds of the volumes tried: clusters of $MFT, child records of record 0
MaxClusters == 3
MaxKids == 2

RecordsPerCluster == DEFAULT_CLUSTER_SIZE \div DEFAULT_RECORD_SIZE

Run(lcn, count) == [lcn |-> lcn, count |-> count]

\* The attributes a child record may hold: n stands for the number of runs of
\* a $DATA attribute
KidShapes ==
    { << [type |-> "DATA", n |-> 1] >>,
      << [type |-> "DATA", n |-> 2] >>,
      << [type |-> "DATA", n |-> 1], [type |-> "DATA", n |-> 1] >>,
      << [type |-> "DATA", n |-> 1], [type |-> "BITMAP", n |-> 0] >>,
      << [type |-> "BITMAP", n |-> 0] >> }

ShapeRuns(shape) == SumSeq([i \in 1..Len(shape) |-> shape[i].n])

KidPlans(h) ==
    LET Kid == [segment : 1..(RecordsPerCluster * MaxClusters - 1), shape : KidShapes]
        All == UNION { [1..k -> Kid] : k \in 0..MaxKids }
    IN  { kids \in All :
            /\ \A i, j \in 1..Len(kids) : kids[i].segment = kids[j].segment => i = j
            /\ h + SumSeq([i \in 1..Len(kids) |-> ShapeRuns(kids[i].shape)]) <= MaxClusters }

\* A volume as a formatter lays it out.  Cluster v of $MFT is stored at LCN
\* place[v + 1]; record 0 holds the first h runs of $DATA, the children hold
\* the following runs, in the order of kids; listed is the order in which the
\* children come in the $ATTRIBUTE_LIST (after the listed of record 0 itself).
Format(place, h, kids, listed) ==
    LET first(j) == h + SumSeq([i \in 1..(j - 1) |-> ShapeRuns(kids[i].shape)])
        attrs(j) ==
            [a \in 1..Len(kids[j].shape) |->
                LET before == SumSeq([b \in 1..(a - 1) |-> kids[j].shape[b].n])
                IN  [type |-> kids[j].shape[a].type,
                     runs |-> [r \in 1..kids[j].shape[a].n |->
                                  Run(place[first(j) + before + r], 1)]]]
        at_(lcn, slot) ==
            { j \in 1..Len(kids) :
                /\ kids[j].segment \div RecordsPerCluster < Len(place)
                /\ place[(kids[j].segment \div RecordsPerCluster) + 1] = lcn
                /\ kids[j].segment % RecordsPerCluster = slot }
    IN  [MftStartLcn |-> place[1],
         own |-> [r \in 1..h |-> Run(place[r], 1)],
         has_list |-> kids # <<>>,
         list |-> << [type |-> "STANDARD_INFORMATION", segment |-> 0],
                     [type |-> "DATA", segment |-> 0] >>
                  \o Concat([e \in 1..Len(listed) |->
                               [a \in 1..Len(kids[listed[e]].shape) |->
                                   [type |-> kids[listed[e]].shape[a].type,
                                    segment |-> kids[listed[e]].segment]]]),
         disk |-> [lcn \in 1..Len(place) |->
                     [slot \in 0..(RecordsPerCluster - 1) |->
                         IF at_(lcn, slot) = {} THEN <<>>
                         ELSE attrs(CHOOSE j \in at_(lcn, slot) : TRUE)]],
         blank |-> [lcn \in 1..Len(place) |->
                     [slot \in 0..(RecordsPerCluster - 1) |-> at_(lcn, slot) = {}]]]

Orders(n) == { p \in [1..n -> 1..n] : \A i, j \in 1..n : p[i] = p[j] => i = j }

\* The volumes tried are fragmented: neither the first nor the last cluster of
\* $MFT is stored at the LCN of its number
BootVolumes ==
    UNION { UNION { UNION { { Format(place, h, kids, listed) : listed \in Orders(Len(kids)) } :
                            kids \in KidPlans(h) } :
                    h \in 1..MaxClusters } :
            place \in { p \in Orders(MaxClusters) : p[1] # 1 /\ p[MaxClusters] # MaxClusters } }

\* RunlistStream: the LCN that holds cluster vcn of the stream, 0 past the end
RECURSIVE Locate(_, _)
Locate(runlist, vcn) ==
    IF runlist = <<>> THEN 0
    ELSE IF vcn < Head(runlist).count THEN Head(runlist).lcn + vcn
    ELSE Locate(Tail(runlist), vcn - Head(runlist).count)

\* Mft.get(segment) over the stream (mft.py lines 96-100): a read past the
\* runs returns no bytes, and a slot without a record does not start with FILE
ReadSegment(vol, runlist, segment) ==
    LET lcn == Locate(runlist, (segment * DEFAULT_RECORD_SIZE) \div DEFAULT_CLUSTER_SIZE)
        slot == segment % RecordsPerCluster
    IN  IF lcn = 0 \/ lcn > Len(vol.disk) THEN [err |-> "BrokenMftError"]
        ELSE IF vol.blank[lcn][slot] THEN [err |-> "BrokenMftError"]
        ELSE [err |-> "", attrs |-> vol.disk[lcn][slot]]

\* AttributeMap.values(): the attributes grouped by type, the types in the
\* order in which add() met them first (util.py lines 27-80)
RECURSIVE AttributeMapValues(_)
AttributeMapValues(attrs) ==
    IF attrs = <<>> THEN <<>>
    ELSE SelectSeq(attrs, LAMBDA a : a.type = Head(attrs).type)
            \o AttributeMapValues(SelectSeq(attrs, LAMBDA a : a.type # Head(attrs).type))

\* ntfs.py lines 96-106: record 0 is parsed where the boot sector says, the
\* provisional stream is opened on its own $DATA runs, and the list is walked
\* if there is one.  The segment of this record is None (-1 here).
BootEnter(n) ==
    [n EXCEPT !.pc = IF n.vol.has_list THEN "entry" ELSE "done",
              !.runlist = n.vol.own,
              !.seen = {-1},
              !.idx = 1]

\* attr.py lines 323-329: the next entry of the list
ListStep(n) ==
    IF n.idx > Len(n.vol.list) THEN [n EXCEPT !.pc = "done"]
    ELSE LET segment == n.vol.list[n.idx].segment
             record == ReadSegment(n.vol, n.runlist, segment)
         IN  IF segment = 0 \/ segment \in n.seen THEN [n EXCEPT !.idx = n.idx + 1]
             ELSE IF record.err # "" THEN [n EXCEPT !.pc = record.err, !.seen = n.seen \cup {segment}]
             ELSE [n EXCEPT !.pc = "yield",
                            !.seen = n.seen \cup {segment},
                            !.pending = AttributeMapValues(record.attrs),
                            !.loads = Append(n.loads, [segment |-> segment,
                                                       runlist |-> n.runlist,
                                                       attrs |-> record.attrs])]

\* attr.py lines 331-332 and ntfs.py lines 150-152: the generators run up to
\* the next $DATA attribute of the child and hand its runs to the loop
YieldStep(n) ==
    IF n.pending = <<>> THEN [n EXCEPT !.pc = "entry", !.idx = n.idx + 1]
    ELSE IF Head(n.pending).type = "DATA"
        THEN [n EXCEPT !.pc = "body", !.datarun = Head(n.pending).runs, !.pending = Tail(n.pending)]
    ELSE [n EXCEPT !.pending = Tail(n.pending)]

AppendRuns_in_front(n) ==
    [n EXCEPT !.pc = "yield", !.runlist = n.datarun \o n.runlist, !.datarun = <<>>]

\* ntfs.py line 114: self.mft.fh.runlist += datarun
AppendRuns(n) ==
    [n EXCEPT !.pc = "yield", !.runlist = n.runlist \o n.datarun, !.datarun = <<>>]

BootCall ==
    /\ nt.pc = "call"
    /\ nt' = BootEnter(nt)
    /\ UNCHANGED <<fx, dr, ix, gp, sg, at>>

BootEntry ==
    /\ nt.pc = "entry"
    /\ nt' = ListStep(nt)
    /\ UNCHANGED <<fx, dr, ix, gp, sg, at>>

BootYield ==
    /\ nt.pc = "yield"
    /\ nt' = YieldStep(nt)
    /\ UNCHANGED <<fx, dr, ix, gp, sg, at>>

BootAppend ==
    /\ nt.pc = "body"
    /\ nt' = AppendRuns(nt)
    /\ UNCHANGED <<fx, dr, ix, gp, sg, at>>

BootInit ==
    /\ nt \in { [pc |-> "call", vol |-> vol, runlist |-> <<>>, seen |-> {}, idx |-> 0,
                 pending |-> <<>>, datarun |-> <<>>, loads |-> <<>>] : vol \in BootVolumes }
    /\ fx = Idle /\ dr = Idle /\ ix = Idle /\ gp = Idle /\ sg = Idle /\ at = Idle

BootNext == BootCall \/ BootEntry \/ BootYield \/ BootAppend

SpecBoot == BootInit /\ [][BootNext]_vars

\* The runs of the $DATA attributes of a record, in the order of the record
DataRuns(attrs) ==
    Concat([i \in 1..Len(attrs) |-> IF attrs[i].type = "DATA" THEN attrs[i].runs ELSE <<>>])

\* The child segments of an attribute list in the order of their first entry
RECURSIVE Children(_, _)
Children(list, seen) ==
    IF list = <<>> THEN <<>>
    ELSE IF Head(list).segment = 0 \/ Head(list).segment \in seen THEN Children(Tail(list), seen)
    ELSE <<Head(list).segment>> \o Children(Tail(list), seen \cup {Head(list).segment})

\* C2: every child record is read through a runlist that already holds the
\* runs of the $DATA attributes of all children read before it, no runs are
\* waiting to be appended at that moment, and after construction the runlist
\* is record 0's own $DATA runs followed by the children's $DATA runs in the
\* order of the attribute list, each child once.
C2_RunsAppendedBeforeNextEntry ==
    nt.pc # "idle" =>
        /\ \A i \in 1..Len(nt.loads) :
              nt.loads[i].runlist =
                  nt.vol.own \o Concat([j \in 1..(i - 1) |-> DataRuns(nt.loads[j].attrs)])
        /\ nt.pc = "entry" => nt.datarun = <<>> /\ nt.pending = <<>>
        /\ nt.pc = "done" =>
              /\ [i \in 1..Len(nt.loads) |-> nt.loads[i].segment] = Children(nt.vol.list, {})
              /\ nt.runlist =
                    nt.vol.own \o Concat([i \in 1..Len(nt.loads) |-> DataRuns(nt.loads[i].attrs)])

\* Construction ended after reading a second child that lies in the clusters
\* the first child contributed
C2_Witness ==
    /\ nt.pc = "done"
    /\ Len(nt.loads) = 2
    /\ nt.loads[2].segment \div RecordsPerCluster >= Len(nt.vol.own)
    /\ Len(nt.runlist) = MaxClusters

(***************************************************************************)
(* mft.Mft._get_path and MftRecord.get: resolving a path                   *)
(***************************************************************************)
FILE_NUMBER_ROOT == 5

\* Bounds of the paths tried: characters of the leading part of a path
MaxPathLen == 3

\* "/", "\", "a", "b"
PathChars == {47, 92, 97, 98}
Names == { <<97>>, <<98>> }

\* Index.search(value) on an index, run to its end
RECURSIVE SearchRun(_)
SearchRun(x) ==
    IF x.pc = "call" THEN SearchRun(SearchEnter(x))
    ELSE IF x.pc = "loop" THEN SearchRun(SearchIter(x))
    ELSE IF x.pc = "check" THEN SearchRun(SearchExit(x))
    ELSE x

\* The records of a small volume: segment 5 is the root directory, 6 and 7
\* are files or directories; names maps the names in a directory to segments
\* (0: no such name).  SequenceNumber differs from record to record.
Record(segment, is_dir, names) ==
    [segment |-> segment, SequenceNumber |-> segment - 4, is_dir |-> is_dir, names |-> names]

\* The listings of a directory: "a" names one of as or nothing, "b" one of bs
\* or nothing
DirListings(as, bs) ==
    { [n \in Names |-> IF n = <<97>> THEN a ELSE b] : a \in as \cup {0}, b \in bs \cup {0} }

PathVolumes ==
    LET Choice(seg, as, bs) ==
            { Record(seg, TRUE, n) : n \in DirListings(as, bs) }
                \cup { Record(seg, FALSE, [n \in Names |-> 0]) }
    IN  { [seg \in 5..7 |-> CASE seg = 5 -> r5 [] seg = 6 -> r6 [] OTHER -> r7] :
            r5 \in { Record(5, TRUE, n) : n \in DirListings({6}, {6, 7}) },
            r6 \in Choice(6, {5, 7}, {7}),
            r7 \in Choice(7, {6}, {}) }

\* The $I30 index of a directory: its names in one root node, sorted
I30(record) ==
    LET present == SelectSeq(<< <<97>>, <<98>> >>, LAMBDA nm : record.names[nm] # 0)
    IN  [root |-> [i \in 1..Len(present) |->
                      [key |-> present[i], is_end |-> FALSE, is_node |-> FALSE, node_vcn |-> -1,
                       file_reference |-> record.names[present[i]]]] \o <<EndEntry>>,
         stream |-> <<>>]

\* str.replace("\\", "/")
Replace_none(path) == path

Replace(path) == [i \in 1..Len(path) |-> IF path[i] = 92 THEN 47 ELSE path[i]]

\* str.split("/"): the pieces between the separators, empty ones included
RECURSIVE SplitPath(_)
SplitPath(path) ==
    IF \A i \in 1..Len(path) : path[i] # 47 THEN <<path>>
    ELSE LET i == CHOOSE i \in 1..Len(path) :
                      path[i] = 47 /\ \A j \in 1..(i - 1) : path[j] # 47
         IN  <<SubSeq(path, 1, i - 1)>> \o SplitPath(SubSeq(path, i + 1, Len(path)))

\* mft.py lines 56-59
GetPathEnter(g) ==
    [g EXCEPT !.pc = "part", !.parts = SplitPath(Replace(g.path)), !.node = g.root]

\* mft.py lines 61-72: one pass of the loop over the parts
GetPathStep(g) ==
    IF g.parts = <<>> THEN [g EXCEPT !.pc = "returned"]
    ELSE LET part == Head(g.parts)
             found == SearchRun(IndexFrame(COLLATION.FILE_NAME, I30(g.node), "search", part, TRUE))
         IN  IF part = <<>> THEN [g EXCEPT !.parts = Tail(g.parts)]
             ELSE IF ~g.node.is_dir THEN [g EXCEPT !.pc = "NotADirectoryError"]
             ELSE IF found.pc = "KeyError" THEN [g EXCEPT !.pc = "FileNotFoundError"]
             ELSE IF found.pc # "returned" THEN [g EXCEPT !.pc = found.pc]
             ELSE [g EXCEPT !.parts = Tail(g.parts),
                            !.node = g.fs[found.entry.file_reference],
                            !.walked = g.walked + 1]

PathFrame(fs, root, path) ==
    [pc |-> "call", fs |-> fs, root |-> root, path |-> path, parts |-> <<>>, node |-> root,
     walked |-> 0, p |-> <<>>, q |-> <<>>]

\* Mft.get(path, root) run to its end
RECURSIVE GetPathRun(_)
GetPathRun(g) ==
    IF g.pc = "call" THEN GetPathRun(GetPathEnter(g))
    ELSE IF g.pc = "part" THEN GetPathRun(GetPathStep(g))
    ELSE g

\* mft.get(path): from the root directory
MftGetPath(fs, path) == GetPathRun(PathFrame(fs, fs[FILE_NUMBER_ROOT], path))

\* record.get(path) (mft.py lines 191-193)
RecordGet(fs, record, path) == GetPathRun(PathFrame(fs, record, path))

GetPathCall ==
    /\ gp.pc = "call"
    /\ gp' = GetPathEnter(gp)
    /\ UNCHANGED <<fx, dr, ix, nt, sg, at>>

GetPathPart ==
    /\ gp.pc = "part"
    /\ gp' = GetPathStep(gp)
    /\ UNCHANGED <<fx, dr, ix, nt, sg, at>>

PathStrings == UNION { [1..k -> PathChars] : k \in 0..MaxPathLen }

\* mft.get(p + sep + q) for a path p, a separator and a name q
PathInit ==
    /\ \E fs \in PathVolumes, p \in PathStrings, sep \in {47, 92}, q \in Names :
          gp = [PathFrame(fs, fs[FILE_NUMBER_ROOT], p \o <<sep>> \o q) EXCEPT !.p = p, !.q = q]
    /\ fx = Idle /\ dr = Idle /\ ix = Idle /\ nt = Idle /\ sg = Idle /\ at = Idle

PathNext == GetPathCall \/ GetPathPart

SpecPath == PathInit /\ [][PathNext]_vars

\* The components of a path: the non-empty pieces between "/" or "\"
RECURSIVE Components(_, _)
Components(path, piece) ==
    IF path = <<>> THEN (IF piece = <<>> THEN <<>> ELSE <<piece>>)
    ELSE IF Head(path) \in {47, 92}
        THEN (IF piece = <<>> THEN <<>> ELSE <<piece>>) \o Components(Tail(path), <<>>)
    ELSE Components(Tail(path), Append(piece, Head(path)))

\* Resolving component by component with record.get(), from a resolved record
RECURSIVE StepByStep(_, _, _)
StepByStep(fs, got, comps) ==
    IF comps = <<>> \/ got.pc # "returned" THEN got
    ELSE StepByStep(fs, RecordGet(fs, got.node, Head(comps)), Tail(comps))

SameOutcome(a, b) ==
    /\ a.pc = b.pc
    /\ a.pc = "returned" =>
          /\ a.node.segment = b.node.segment
          /\ a.node.SequenceNumber = b.node.SequenceNumber

PathEnded == gp.pc \notin {"idle", "call", "part"}

\* C3: mft.get(path) resolves the non-empty components of the path, "/" and
\* "\" separating alike, one after the other; and whenever mft.get(p) is a
\* directory containing q, mft.get(p + sep + q) returns a record equal to
\* mft.get(p).get(q).
C3_PathSeparatorsAndSteps ==
    PathEnded =>
        /\ SameOutcome(gp, StepByStep(gp.fs, MftGetPath(gp.fs, <<>>), Components(gp.path, <<>>)))
        /\ LET dir == MftGetPath(gp.fs, gp.p)
           IN  dir.pc = "returned" /\ dir.node.is_dir /\ dir.node.names[gp.q] # 0 =>
                  /\ gp.pc = "returned"
                  /\ SameOutcome(gp, RecordGet(gp.fs, dir.node, gp.q))

\* A path with a backslash and a doubled separator was resolved through two
\* directories
C3_Witness ==
    /\ PathEnded /\ gp.pc = "returned"
    /\ gp.walked = 2
    /\ \E i \in 1..Len(gp.path) : gp.path[i] = 92
    /\ \E i \in 1..(Len(gp.path) - 1) : gp.path[i] \in {47, 92} /\ gp.path[i + 1] \in {47, 92}
    /\ gp.node.segment # FILE_NUMBER_ROOT

(***************************************************************************)
(* mft.MftRecord.attributes and the reads of a stream                      *)
(***************************************************************************)
\* Bounds: entries of an $ATTRIBUTE_LIST, and the depth at which the
\* interpreter gives up on nested calls (RecursionError)
MaxListLen == 2
MaxDepth == 5

\* The records tried: 16 and 17 may hold an $ATTRIBUTE_LIST, 18 never does
AttrSegments == {16, 17, 18}

\* The attributes stored in a record itself (mft.py lines 203-222): its piece
\* of the unnamed $DATA stream, one cluster at VCN segment - 16, where only
\* the piece at VCN 0 declares the size of the whole stream, and the
\* $ATTRIBUTE_LIST if it has one
ParseOwn(vol, segment) ==
    << [type |-> "DATA", owner |-> segment, lowest_vcn |-> segment - 16,
        runs |-> <<Run(segment, 1)>>,
        size |-> IF segment = 16 THEN 3 * DEFAULT_CLUSTER_SIZE ELSE 0] >>
    \o (IF vol[segment].has_list
          THEN << [type |-> "ATTRIBUTE_LIST", owner |-> segment, lowest_vcn |-> 0,
                   runs |-> <<>>, size |-> 0] >>
        ELSE <<>>)

ListResolved_without_mft(a, segment) == a.vol[segment].has_list

\* mft.py line 232: if attr_list and self.ntfs and self.ntfs.mft
ListResolved(a, segment) == a.vol[segment].has_list /\ a.has_mft

AttrFrame(a, segment) ==
    [segment |-> segment, idx |-> 1, seen |-> {segment}, attrs |-> ParseOwn(a.vol, segment)]

\* record.attributes is asked for: mft.py lines 203-222
AttributesEnter(a) ==
    [a EXCEPT !.pc = "resolve", !.stack = <<AttrFrame(a, a.start)>>]

AttributesWalk_without_seen(a) ==
    LET d == Len(a.stack)
        top == a.stack[d]
        segment == a.vol[top.segment].list[top.idx]
    IN  IF segment = 0 \/ segment = top.segment THEN [a EXCEPT !.stack[d].idx = top.idx + 1]
        ELSE IF a.cached[segment].done
            THEN [a EXCEPT !.stack[d].idx = top.idx + 1,
                           !.stack[d].seen = top.seen \cup {segment},
                           !.stack[d].attrs = top.attrs \o AttributeMapValues(a.cached[segment].attrs)]
        ELSE IF d >= MaxDepth THEN [a EXCEPT !.pc = "RecursionError"]
        ELSE [a EXCEPT !.stack[d].seen = top.seen \cup {segment},
                       !.stack = Append(@, AttrFrame(a, segment)),
                       !.nested = a.nested + 1]

\* mft.py lines 232-236 with attr.py lines 321-332: the next entry of the
\* list of the record on top.  A record whose attributes are not stored yet
\* is resolved in a nested call, also when it is being resolved further down.
AttributesWalk(a) ==
    LET d == Len(a.stack)
        top == a.stack[d]
        segment == a.vol[top.segment].list[top.idx]
    IN  IF segment = 0 \/ segment \in top.seen THEN [a EXCEPT !.stack[d].idx = top.idx + 1]
        ELSE IF a.cached[segment].done
            THEN [a EXCEPT !.stack[d].idx = top.idx + 1,
                           !.stack[d].seen = top.seen \cup {segment},
                           !.stack[d].attrs = top.attrs \o AttributeMapValues(a.cached[segment].attrs)]
        ELSE IF d >= MaxDepth THEN [a EXCEPT !.pc = "RecursionError"]
        ELSE [a EXCEPT !.stack[d].seen = top.seen \cup {segment},
                       !.stack = Append(@, AttrFrame(a, segment)),
                       !.nested = a.nested + 1]

\* mft.py line 236: the attributes are returned and stored on the record
\* (cached_property); the caller, if any, adds them to its own
AttributesExit(a) ==
    LET d == Len(a.stack)
        top == a.stack[d]
        b == [a EXCEPT !.cached[top.segment] = [done |-> TRUE, attrs |-> top.attrs]]
    IN  IF d = 1 THEN [b EXCEPT !.pc = "returned", !.stack = <<>>, !.attrs = top.attrs]
        ELSE [b EXCEPT !.stack = [i \in 1..(d - 1) |->
                                    IF i < d - 1 THEN a.stack[i]
                                    ELSE [a.stack[i] EXCEPT
                                            !.idx = @ + 1,
                                            !.attrs = @ \o AttributeMapValues(top.attrs)]]]

ListDone(a) ==
    LET top == a.stack[Len(a.stack)]
    IN  ~ListResolved(a, top.segment) \/ top.idx > Len(a.vol[top.segment].list)

\* sorted(..., key=lowest_vcn) of util.py lines 168-169: a stable sort
RECURSIVE SortByVcn(_)
SortByVcn(attrs) ==
    IF attrs = <<>> THEN <<>>
    ELSE LET m == CHOOSE i \in 1..Len(attrs) :
                    /\ \A j \in 1..Len(attrs) : attrs[i].lowest_vcn <= attrs[j].lowest_vcn
                    /\ \A j \in 1..(i - 1) : attrs[j].lowest_vcn # attrs[i].lowest_vcn
         IN  <<attrs[m]>> \o SortByVcn([k \in 1..(Len(attrs) - 1) |->
                                          IF k < m THEN attrs[k] ELSE attrs[k + 1]])

\* MftRecord.size / dataruns / open of the unnamed $DATA stream (mft.py lines
\* 311-359) on AttributeCollection (util.py lines 104-178)
StreamRead(a, op) ==
    LET attrs == SortByVcn(SelectSeq(a.attrs, LAMBDA x : x.type = "DATA"))
        runs == Concat([i \in 1..Len(attrs) |-> attrs[i].runs])
    IN  IF attrs = <<>> THEN [err |-> "FileNotFoundError", size |-> 0, runs |-> <<>>]
        ELSE CASE op = "size" -> [err |-> "", size |-> attrs[1].size, runs |-> <<>>]
               [] op = "dataruns" -> [err |-> "", size |-> 0, runs |-> runs]
               [] op = "open" ->
                    IF ~a.has_volume THEN [err |-> "VolumeNotAvailableError", size |-> 0, runs |-> <<>>]
                    ELSE [err |-> "", size |-> attrs[1].size, runs |-> runs]

AttributesCall ==
    /\ at.pc = "call"
    /\ at' = AttributesEnter(at)
    /\ UNCHANGED <<fx, dr, ix, nt, gp, sg>>

AttributesEntry ==
    /\ at.pc = "resolve" /\ ~ListDone(at)
    /\ at' = AttributesWalk(at)
    /\ UNCHANGED <<fx, dr, ix, nt, gp, sg>>

AttributesReturn ==
    /\ at.pc = "resolve" /\ ListDone(at)
    /\ at' = AttributesExit(at)
    /\ UNCHANGED <<fx, dr, ix, nt, gp, sg>>

AttributesRead ==
    /\ at.pc = "returned"
    /\ \E op \in {"size", "dataruns", "open"} :
          at' = [at EXCEPT !.pc = "read", !.op = op, !.result = StreamRead(at, op)]
    /\ UNCHANGED <<fx, dr, ix, nt, gp, sg>>

AttrLists == UNION { [1..k -> AttrSegments \cup {0}] : k \in 0..MaxListLen }

AttrVolumes ==
    LET WithList == { [has_list |-> TRUE, list |-> l] : l \in AttrLists }
                        \cup { [has_list |-> FALSE, list |-> <<>>] }
    IN  { [seg \in AttrSegments |->
              CASE seg = 16 -> r16 [] seg = 17 -> r17
                [] OTHER -> [has_list |-> FALSE, list |-> <<>>]] :
          r16 \in WithList, r17 \in WithList }

AttrsInit ==
    /\ at \in { [pc |-> "call", vol |-> vol, has_mft |-> m, has_volume |-> v, start |-> st,
                 stack |-> <<>>, nested |-> 0, attrs |-> <<>>, op |-> "",
                 cached |-> [seg \in AttrSegments |-> [done |-> FALSE, attrs |-> <<>>]],
                 result |-> [err |-> "", size |-> 0, runs |-> <<>>]] :
                vol \in AttrVolumes, m \in BOOLEAN, v \in BOOLEAN, st \in {16, 17} }
    /\ fx = Idle /\ dr = Idle /\ ix = Idle /\ nt = Idle /\ gp = Idle /\ sg = Idle

AttrsNext == AttributesCall \/ AttributesEntry \/ AttributesReturn \/ AttributesRead

SpecAttrs == AttrsInit /\ [][AttrsNext]_vars

\* C9: resolving the attributes of a record ends by returning them, also when
\* attribute lists reference each other, and no segment is resolved while it
\* is already being resolved.
C9_AttributeListCyclesTerminate ==
    at.pc # "idle" =>
        /\ at.pc # "RecursionError"
        /\ \A i, j \in 1..Len(at.stack) : at.stack[i].segment = at.stack[j].segment => i = j

\* The part of C9 that holds: a list that references its own record is not
\* followed, and neither is a segment that the same list named before
C9_OwnSegmentNotFollowed ==
    at.pc # "idle" =>
        \A i \in 1..(Len(at.stack) - 1) : at.stack[i].segment # at.stack[i + 1].segment

\* The record read has a list that names another record
ListsChild == \E i \in 1..Len(at.vol[at.start].list) : at.vol[at.start].list[i] \notin {0, at.start}

\* C10 as stated: without an MFT, size, dataruns and open of a stream that
\* continues in a child record fail with MftNotAvailableError.
C10_ReadsFailWithoutMft ==
    at.pc = "read" /\ ~at.has_mft /\ at.vol[at.start].has_list /\ ListsChild =>
        at.result.err = "MftNotAvailableError"

\* C10: without an MFT the attribute list stays unresolved, the attributes of
\* the record are those stored in the record itself, and size, dataruns and
\* open raise no MftNotAvailableError: they answer from these attributes
\* alone, open failing with VolumeNotAvailableError when there is no volume.
C10_ReadsUseHostAttributesOnly ==
    at.pc = "read" /\ ~at.has_mft =>
        LET own == ParseOwn(at.vol, at.start)
        IN  /\ at.attrs = own
            /\ at.nested = 0
            /\ at.result.err # "MftNotAvailableError"
            /\ at.op = "size" => at.result = [err |-> "", size |-> own[1].size, runs |-> <<>>]
            /\ at.op = "dataruns" => at.result = [err |-> "", size |-> 0, runs |-> own[1].runs]
            /\ at.op = "open" =>
                  at.result = IF at.has_volume
                                THEN [err |-> "", size |-> own[1].size, runs |-> own[1].runs]
                              ELSE [err |-> "VolumeNotAvailableError", size |-> 0, runs |-> <<>>]

\* dataruns() answered without an MFT for a record whose list names a child
C10_Witness ==
    /\ at.pc = "read" /\ ~at.has_mft /\ at.has_volume
    /\ at.vol[at.start].has_list /\ ListsChild
    /\ at.op = "dataruns"
    /\ at.result.err = ""

(***************************************************************************)
(* util.apply_fixup applied to its own output                              *)
(***************************************************************************)
\* Blocks whose saved tails are the update sequence number itself or another
\* word, at the usual fixup offset and at the largest one accepted
RefixBlocks ==
    UNION { { MkBlock(n, 0, F, repl, tails) :
                F \in {48, SECTOR_SIZE - 2 * (n + 1)},
                repl \in [1..n -> {PlantedWords.sample, 255}],
                tails \in [1..n -> {PlantedWords.sample, PlantedWords.torn}] } :
            n \in 1..MaxSectors }

\* apply_fixup(apply_fixup(x)): the block returned is handed in again; first
\* keeps what the first call returned
FixupAgain ==
    /\ fx.pc = "returned"
    /\ "first" \notin DOMAIN fx
    /\ fx' = FixupEnter(fx.data) @@ [first |-> fx.data]
    /\ UNCHANGED <<dr, ix, nt, gp, sg, at>>

RefixInit ==
    /\ fx \in {[pc |-> "call", input |-> b] : b \in RefixBlocks}
    /\ dr = Idle /\ ix = Idle /\ nt = Idle /\ gp = Idle /\ sg = Idle /\ at = Idle

RefixNext == FixupCall \/ FixupSector \/ FixupReturn \/ FixupAgain

SpecRefix == RefixInit /\ [][RefixNext]_vars

SecondEnded == "first" \in DOMAIN fx /\ fx.pc \notin {"call", "loop"}

\* C11 as stated: whenever apply_fixup(x) succeeds, apply_fixup(apply_fixup(x))
\* succeeds too and returns the same block.
C11_FixupIdempotent ==
    SecondEnded => fx.pc = "returned" /\ fx.data = fx.first

\* Every sector of block y ends in the update sequence number y stores at its
\* fixup offset
TailsAreSample(y) ==
    \A i \in 0..(ShiftRight(Len(y), SECTOR_SHIFT) - 1) :
        Slice(y, TailOffset(i), TailOffset(i) + 2) = Slice(y, U16(y, 4), U16(y, 4) + 2)

\* C11: with y = apply_fixup(x), apply_fixup(y) succeeds exactly when every
\* sector of y ends in the update sequence number of y, and then it returns
\* y; otherwise it raises ValueError.
C11_FixupIdempotentOnSampleTails ==
    SecondEnded =>
        /\ fx.pc = "returned" <=> TailsAreSample(fx.first)
        /\ fx.pc = "returned" => fx.data = fx.first
        /\ fx.pc # "returned" => fx.pc = "ValueError"

\* The second call succeeded on a block of several sectors
C11_Witness ==
    /\ SecondEnded /\ fx.pc = "returned"
    /\ Len(fx.first) >= 2 * SECTOR_SIZE

\* The second call failed on the output of the first
C11_WitnessMismatch == SecondEnded /\ fx.pc = "ValueError"

\* What the claim lists as reasons to fail, read off the block handed in
ShouldFail(x) ==
    \/ Len(x) < SECTOR_SIZE
    \/ U16(x, 4) % 2 = 1
    \/ U16(x, 4) + 2 * (ShiftRight(Len(x), SECTOR_SHIFT) + 1) > SECTOR_SIZE
    \/ ~TailsAreSample(x)

FixupEnded == fx.pc \notin {"idle", "call", "loop"}

\* C12: apply_fixup fails exactly on an odd fixup offset, a fixup array that
\* ends past byte 512, a block without a full sector, or a sector tail that
\* differs from the sample; a failure is an exception and not a returned
\* block, and no step of the call changes the caller's buffer.
C12_FixupFailsAndKeepsInput ==
    /\ [](FixupEnded =>
            /\ fx.pc # "returned" <=> ShouldFail(fx.input)
            /\ fx.pc # "returned" => fx.pc \in {"ValueError", "struct.error"})
    /\ [][fx.pc # "idle" => fx'.input = fx.input]_vars

\* A mismatch at a later sector, after the working copy was already changed
C12_Witness ==
    /\ fx.pc = "ValueError"
    /\ "i" \in DOMAIN fx
    /\ fx.i >= 1
    /\ fx.data # fx.input

(***************************************************************************)
(* attr.AttributeHeader.dataruns inside an MFT record                      *)
(***************************************************************************)
\* What follows the attribute record in the buffer of the MFT record: a $DATA
\* attribute (type 0x80), a $LOGGED_UTILITY_STREAM attribute (type 0x100), the
\* end marker 0xffffffff, bytes that read as a mapping pair, or nothing
FollowingBytes ==
    { <<128, 0, 0, 0, 72, 0, 0, 0>>, <<0, 1, 0, 0, 72, 0, 0, 0>>, <<255, 255, 255, 255>>,
      <<17, 2, 32, 0>>, <<>> }

\* The mapping pairs end the attribute record, with the zero header byte
\* inside the record or without it; limit is the end of the attribute record
\* (offset + RecordLength), counted from the first mapping pair
RecordRunsInit ==
    /\ dr \in { [pc |-> "call", resident |-> FALSE, pairs |-> ps, terminated |-> t,
                 fh |-> EncodePairs(ps) \o (IF t THEN <<0>> ELSE <<>>) \o nx,
                 limit |-> Len(EncodePairs(ps)) + (IF t THEN 1 ELSE 0),
                 pos |-> 0, runs |-> <<>>, offset |-> 0] :
                ps \in PairSeqs, t \in BOOLEAN, nx \in FollowingBytes }
    /\ fx = Idle /\ ix = Idle /\ nt = Idle /\ gp = Idle /\ sg = Idle /\ at = Idle

SpecRecordRuns == RecordRunsInit /\ [][DatarunsNext]_vars

\* C13: dataruns() consumes no byte past the end of the attribute record, and
\* mapping pairs without a zero header byte inside the record are rejected.
C13_DatarunsStayInsideRecord ==
    dr.pc # "idle" =>
        /\ dr.pos <= dr.limit
        /\ ~dr.terminated => dr.pc # "returned"

\* The part of C13 that holds: pairs that are terminated inside the record
\* are decoded without reading past it
C13_TerminatedStaysInside ==
    dr.pc # "idle" /\ dr.terminated => dr.pos <= dr.limit

(***************************************************************************)
(* ntfs.NTFS.__init__: the geometry read from the boot sector              *)
(***************************************************************************)
\* Python integers have no width: 1 << 128 is a number.  The integers met
\* here are products of small numbers and powers of two, kept exactly as
\* m * 2^e with m odd (or m = 0, e = 0).
RECURSIVE BigOf(_)
BigOf(n) ==
    IF n = 0 THEN [m |-> 0, e |-> 0]
    ELSE IF n % 2 = 1 THEN [m |-> n, e |-> 0]
    ELSE [m |-> BigOf(n \div 2).m, e |-> BigOf(n \div 2).e + 1]

\* 1 << k
BigShiftOne(k) == [m |-> 1, e |-> k]

BigMul(a, b) ==
    IF a.m = 0 \/ b.m = 0 THEN [m |-> 0, e |-> 0] ELSE [m |-> a.m * b.m, e |-> a.e + b.e]

\* cstruct INT8 of a byte (c_ntfs.py line 36)
Int8(byte) == IF byte >= 128 THEN byte - 256 ELSE byte

\* ntfs.py lines 55-60
ParseGeometry(n) ==
    LET SectorsPerCluster == Int8(n.boot.SectorsPerCluster)
        sectors_per_cluster == IF SectorsPerCluster < 0 THEN BigShiftOne(-SectorsPerCluster)
                               ELSE BigOf(SectorsPerCluster)
    IN  [n EXCEPT !.pc = "geometry",
                  !.sector_size = BigOf(n.boot.BytesPerSector),
                  !.cluster_size = BigMul(sectors_per_cluster, BigOf(n.boot.BytesPerSector))]

BootSectorParse ==
    /\ nt.pc = "boot"
    /\ nt' = ParseGeometry(nt)
    /\ UNCHANGED <<fx, dr, ix, gp, sg, at>>

\* Boot sectors with every SectorsPerCluster byte and the sector sizes in use
BootSectorInit ==
    /\ nt \in { [pc |-> "boot", boot |-> [BytesPerSector |-> bps, SectorsPerCluster |-> spc],
                 sector_size |-> BigOf(0), cluster_size |-> BigOf(0)] :
                bps \in {256, 512, 1024, 2048, 4096}, spc \in 0..255 }
    /\ fx = Idle /\ dr = Idle /\ ix = Idle /\ gp = Idle /\ sg = Idle /\ at = Idle

SpecBootSector == BootSectorInit /\ [][BootSectorParse]_vars

\* The sectors per cluster a SectorsPerCluster byte stands for: the byte
\* itself up to 0x80, and 2^(256 - byte) above
EncodedSectors(byte) == IF byte <= 128 THEN BigOf(byte) ELSE BigShiftOne(256 - byte)

\* C14: cluster_size is BytesPerSector times the sectors per cluster that the
\* SectorsPerCluster byte encodes; 512 with byte 0x80 gives 0x10000, and
\* 0x1000 with 0x200 sectors per cluster (byte 0xf7) gives 0x200000.
C14_ClusterSize ==
    nt.pc = "geometry" =>
        /\ nt.cluster_size = BigMul(BigOf(nt.boot.BytesPerSector),
                                    EncodedSectors(nt.boot.SectorsPerCluster))
        /\ nt.boot = [BytesPerSector |-> 512, SectorsPerCluster |-> 128]
              => nt.cluster_size = BigOf(65536)
        /\ nt.boot = [BytesPerSector |-> 4096, SectorsPerCluster |-> 247]
              => nt.cluster_size = BigOf(2097152)

\* The part of C14 that holds: every byte other than 0x80
C14_ClusterSizeExcept0x80 ==
    nt.pc = "geometry" /\ nt.boot.SectorsPerCluster # 128 =>
        nt.cluster_size = BigMul(BigOf(nt.boot.BytesPerSector),
                                 EncodedSectors(nt.boot.SectorsPerCluster))

(***************************************************************************)
(* c_ntfs.varint over its whole width                                      *)
(***************************************************************************)
\* struct.unpack("<q") takes 8 bytes
VarintWidth == 8

\* A 64-bit result is kept as a sign and the little-endian bytes of its
\* magnitude, without leading zero bytes (zero: no bytes, not negative)
RECURSIVE Strip(_)
Strip(bytes) ==
    IF bytes = <<>> THEN <<>>
    ELSE IF bytes[Len(bytes)] = 0 THEN Strip(SubSeq(bytes, 1, Len(bytes) - 1))
    ELSE bytes

\* bytes + carry, at the width of bytes
RECURSIVE AddCarry(_, _)
AddCarry(bytes, carry) ==
    IF bytes = <<>> THEN <<>>
    ELSE <<(Head(bytes) + carry) % 256>>
            \o AddCarry(Tail(bytes), (Head(bytes) + carry) \div 256)

\* The magnitude of a negative two's-complement number: invert, add one
Negate(bytes) == AddCarry([i \in 1..Len(bytes) |-> 255 - bytes[i]], 1)

\* struct.unpack("<q", b8)[0]
UnpackQ(b8) ==
    IF b8[VarintWidth] >= 128 THEN [neg |-> TRUE, mag |-> Strip(Negate(b8))]
    ELSE [neg |-> FALSE, mag |-> Strip(b8)]

varint_wide_zero_padded(buf) ==
    UnpackQ(buf \o [i \in 1..(VarintWidth - Len(buf)) |-> 0])

\* c_ntfs.varint (lines 544-547) on a buffer of 1 to 8 bytes
varint_wide(buf) ==
    UnpackQ(IF Len(buf) < VarintWidth
              THEN buf \o [i \in 1..(VarintWidth - Len(buf)) |->
                              IF buf[Len(buf)] >= 128 THEN 255 ELSE 0]
            ELSE buf)

VarintCall ==
    /\ dr.pc = "varint"
    /\ dr' = [dr EXCEPT !.pc = "returned", !.result = varint_wide(dr.buf)]
    /\ UNCHANGED <<fx, ix, nt, gp, sg, at>>

\* Buffers of 1 to 8 bytes over the bytes at the edges of the sign bit
VarintInit ==
    /\ dr \in { [pc |-> "varint", buf |-> b, result |-> [neg |-> FALSE, mag |-> <<>>]] :
                b \in UNION { [1..k -> {0, 127, 128, 255}] : k \in 1..VarintWidth } }
    /\ fx = Idle /\ ix = Idle /\ nt = Idle /\ gp = Idle /\ sg = Idle /\ at = Idle

SpecVarint == VarintInit /\ [][VarintCall]_vars

\* The value of buf as a two's-complement number of Len(buf) bytes
TwosComplement(buf) ==
    IF buf[Len(buf)] >= 128 THEN [neg |-> TRUE, mag |-> Strip(Negate(buf))]
    ELSE [neg |-> FALSE, mag |-> Strip(buf)]

\* A number written in its minimal two's-complement width
MinimalWidth(v) ==
    IF v.mag = <<>> THEN <<0>>
    ELSE IF ~v.neg
        THEN (IF v.mag[Len(v.mag)] >= 128 THEN v.mag \o <<0>> ELSE v.mag)
    ELSE (IF Negate(v.mag)[Len(v.mag)] >= 128 THEN Negate(v.mag) ELSE Negate(v.mag) \o <<255>>)

\* C15: varint(buf) is the two's-complement value of buf, sign-extended from
\* the top bit of its last byte; 80 is -128, ff 7f is 32767, 00 80 is -32768;
\* and a number written in its minimal width decodes to itself.
C15_VarintSignExtends ==
    dr.pc = "returned" /\ "buf" \in DOMAIN dr =>
        /\ dr.result = TwosComplement(dr.buf)
        /\ dr.buf = <<128>> => dr.result = [neg |-> TRUE, mag |-> <<128>>]
        /\ dr.buf = <<255, 127>> => dr.result = [neg |-> FALSE, mag |-> <<255, 127>>]
        /\ dr.buf = <<0, 128>> => dr.result = [neg |-> TRUE, mag |-> <<0, 128>>]
        /\ Len(MinimalWidth(dr.result)) <= VarintWidth
              => varint_wide(MinimalWidth(dr.result)) = dr.result

\* A negative number of fewer than 8 bytes was decoded and is written back in
\* fewer bytes than it came in
C15_Witness ==
    /\ dr.pc = "returned" /\ "buf" \in DOMAIN dr
    /\ dr.result.neg
    /\ Len(dr.buf) = 3
    /\ Len(MinimalWidth(dr.result)) = 2

(***************************************************************************)
(* secure.Secure: lookup() over $SDS, with or without the $SII index       *)
(***************************************************************************)
MaxSdsEntries == 3

\* c_ntfs._SECURITY_DESCRIPTOR_HEADER: the fields and their widths in bytes
_SECURITY_DESCRIPTOR_HEADER ==
    << [name |-> "HashId", size |-> 4], [name |-> "SecurityId", size |-> 4],
       [name |-> "Offset", size |-> 8], [name |-> "Length", size |-> 4] >>

SizeOfHeader ==
    SumSeq([i \in 1..Len(_SECURITY_DESCRIPTOR_HEADER) |-> _SECURITY_DESCRIPTOR_HEADER[i].size])

SecurityIds == 256..(255 + MaxSdsEntries)

\* offset += -(offset) & 0xF
Align16(o) == o + ((16 - (o % 16)) % 16)

\* The $SDS stream is its size and the entries stored in it, each at its byte
\* position pos; every byte outside the stored entries is zero.
RECURSIVE Lay(_, _)
Lay(items, pos) ==
    IF items = <<>> THEN <<>>
    ELSE LET e == [pos |-> pos, SecurityId |-> Head(items).id, Offset |-> pos,
                   Length |-> SizeOfHeader + Head(items).payload]
         IN  <<e>> \o Lay(Tail(items), Align16(pos + e.Length))

Mirror(es) == [i \in 1..Len(es) |-> [es[i] EXCEPT !.pos = @ + 262144]]

SdsItems ==
    UNION { { s \in [1..k -> [id : SecurityIds, payload : {20, 44}]] :
                \A i, j \in 1..k : i # j => s[i].id # s[j].id } : k \in 0..MaxSdsEntries }

SdsStreams ==
    { [size |-> IF Len(Lay(s, 0)) = 0 THEN 0
                ELSE Lay(s, 0)[Len(s)].pos + Lay(s, 0)[Len(s)].Length,
       at |-> Lay(s, 0)] : s \in SdsItems }
    \cup { [size |-> 2 * 262144, at |-> Lay(s, 0) \o Mirror(Lay(s, 0))] : s \in SdsItems }

\* c_ntfs._SECURITY_DESCRIPTOR_HEADER(fh) after fh.seek(o): the parsed fields
\* and the position the stream is left at
ReadHeader_without_length(sds, o) ==
    LET n == SizeOfHeader - _SECURITY_DESCRIPTOR_HEADER[4].size
        here == { i \in 1..Len(sds.at) : sds.at[i].pos = o }
    IN  IF o + n > sds.size THEN [err |-> "EOFError"]
        ELSE IF here = {} THEN [err |-> "", SecurityId |-> 0, Offset |-> 0, Length |-> 0,
                                tell |-> o + n]
        ELSE LET e == sds.at[CHOOSE i \in here : TRUE]
             IN  [err |-> "", SecurityId |-> e.SecurityId, Offset |-> e.Offset,
                  Length |-> e.Length, tell |-> o + n]

ReadHeader(sds, o) ==
    LET here == { i \in 1..Len(sds.at) : sds.at[i].pos = o }
    IN  IF o + SizeOfHeader > sds.size THEN [err |-> "EOFError"]
        ELSE IF here = {} THEN [err |-> "", SecurityId |-> 0, Offset |-> 0, Length |-> 0,
                                tell |-> o + SizeOfHeader]
        ELSE LET e == sds.at[CHOOSE i \in here : TRUE]
             IN  [err |-> "", SecurityId |-> e.SecurityId, Offset |-> e.Offset,
                  Length |-> e.Length, tell |-> o + SizeOfHeader]

\* The $SII index of an $SDS stream: one entry per security id, in id order,
\* whose data is the header of the entry in the first copy of the stream
SiiKey(id) == <<id % 256, id \div 256, 0, 0>>

SiiEntry(e) ==
    [key |-> SiiKey(e.SecurityId), is_end |-> FALSE, is_node |-> FALSE, node_vcn |-> -1,
     file_reference |-> 0, data |-> [SecurityId |-> e.SecurityId, Offset |-> e.Offset,
                                     Length |-> e.Length]]

SiiEnd == EndEntry @@ [data |-> [SecurityId |-> 0, Offset |-> 0, Length |-> 0]]

SiiOf(sds) ==
    LET first == { i \in 1..Len(sds.at) : sds.at[i].pos < 262144 }
        ids == { sds.at[i].SecurityId : i \in first }
        ByRank == [r \in 1..Cardinality(ids) |->
                      CHOOSE i \in first :
                          Cardinality({ j \in ids : j < sds.at[i].SecurityId }) = r - 1]
    IN  [root |-> [r \in 1..Cardinality(ids) |-> SiiEntry(sds.at[ByRank[r]])] \o <<SiiEnd>>,
         stream |-> <<>>]

\* Secure.lookup lines 78-85: where the iteration starts
LookupEnter(x) ==
    IF x.has_sii
        THEN LET s == SearchRun([IndexFrame(COLLATION.NTOFS_ULONG, x.sii, "search",
                                            x.security_id, TRUE) EXCEPT !.entry = SiiEnd])
             IN  IF s.pc = "returned" THEN [x EXCEPT !.pc = "iter", !.offset = s.entry.data.Offset]
                 ELSE [x EXCEPT !.pc = s.pc]
    ELSE [x EXCEPT !.pc = "iter", !.offset = 0]

\* One pass of the loop of Secure._iter_entries (lines 53-66) and, for an
\* entry it yields, of the loop of lookup (lines 87-92)
LookupIter(x) ==
    LET entry == ReadHeader(x.sds, x.offset)
    IN  IF entry.err # "" THEN [x EXCEPT !.pc = "KeyError"]
        ELSE IF entry.Length = 0 \/ entry.Offset > x.sds.size \/ entry.Length > 65536
            THEN [x EXCEPT !.offset = @ + (262144 - (@ % 262144)), !.tell = entry.tell]
        ELSE IF entry.SecurityId = x.security_id
            THEN [x EXCEPT !.pc = "returned", !.tell = entry.tell,
                           !.result = [parsed_at |-> entry.tell]]
        ELSE [x EXCEPT !.offset = Align16(@ + entry.Length), !.tell = entry.tell,
                       !.yielded = @ + 1]

LookupCall ==
    /\ sg.pc = "lookup"
    /\ sg' = LookupEnter(sg)
    /\ UNCHANGED <<fx, dr, ix, nt, gp, at>>

LookupEntry ==
    /\ sg.pc = "iter"
    /\ sg' = LookupIter(sg)
    /\ UNCHANGED <<fx, dr, ix, nt, gp, at>>

SecureInit ==
    /\ sg \in { [pc |-> "lookup", sds |-> s, has_sii |-> h, sii |-> SiiOf(s), security_id |-> id,
                 offset |-> 0, tell |-> 0, yielded |-> 0, result |-> [parsed_at |-> -1]] :
                s \in SdsStreams, h \in BOOLEAN, id \in 256..(256 + MaxSdsEntries) }
    /\ fx = Idle /\ dr = Idle /\ ix = Idle /\ nt = Idle /\ gp = Idle /\ at = Idle

SecureNext == LookupCall \/ LookupEntry

SpecSecure == SecureInit /\ [][SecureNext]_vars

LookupEnded == sg.pc \in {"returned", "KeyError"} /\ "sds" \in DOMAIN sg

\* The positions of the $SDS entries that carry the looked-up id
Carriers == { sg.sds.at[i].pos : i \in { j \in 1..Len(sg.sds.at) :
                                          sg.sds.at[j].SecurityId = sg.security_id } }

\* C16 as stated: lookup(id) returns the descriptor parsed 16 bytes after the
\* start of an $SDS entry whose SecurityId is id, through $SII or from offset
\* 0 alike, and raises KeyError when no entry has that id.
C16_LookupAfter16ByteHeader ==
    LookupEnded =>
        /\ sg.pc = "returned" <=> Carriers # {}
        /\ sg.pc = "returned" => sg.result.parsed_at - 16 \in Carriers

\* C16 amended: the descriptor is parsed after the whole entry header, the 20
\* bytes of _SECURITY_DESCRIPTOR_HEADER, of the first entry carrying the id.
C16_LookupAfterEntryHeader ==
    LookupEnded =>
        /\ sg.pc = "returned" <=> Carriers # {}
        /\ sg.pc = "returned" =>
              /\ sg.result.parsed_at - SizeOfHeader \in Carriers
              /\ \A p \in Carriers : sg.result.parsed_at - SizeOfHeader <= p
              /\ sg.result.parsed_at = sg.tell
        /\ SizeOfHeader = 20

\* A descriptor was found without $SII after passing over other entries
C16_Witness ==
    /\ LookupEnded /\ sg.pc = "returned" /\ ~sg.has_sii
    /\ sg.yielded = 2

\* A descriptor was found through $SII at an entry that is not the first
C16_WitnessSii ==
    /\ LookupEnded /\ sg.pc = "returned" /\ sg.has_sii
    /\ sg.offset > 0 /\ sg.yielded = 0

(***************************************************************************)
(* usnjrnl.UsnJrnl.records over a $UsnJrnl:$J stream                       *)
(***************************************************************************)
USN_PAGE_SIZE == 4096

MaxUsnRecords == 3
MaxSparseRuns == 2

\* The sizes in bytes of c_ntfs.USN_RECORD_V2, _V3, _V4 and _EXTENT
SizeOfUsnRecord(major, extents) ==
    CASE major = 2 -> 8 + 8 + 8 + 8 + 8 + 4 + 4 + 4 + 4 + 2 + 2
      [] major = 3 -> 8 + 16 + 16 + 8 + 8 + 4 + 4 + 4 + 4 + 2 + 2
      [] major = 4 -> (8 + 16 + 16 + 8 + 4 + 4 + 4 + 2 + 2) + extents * (8 + 8)
      [] OTHER -> 8

Align8(o) == IF o % 8 # 0 THEN o + ((8 - (o % 8)) % 8) ELSE o

NextPage(o) == o + (USN_PAGE_SIZE - (o % USN_PAGE_SIZE))

\* The journal is its size and the records stored in it, each at its byte
\* position pos; every byte outside the stored records is zero.  An item is a
\* record or the zero fill up to the next page.
UsnItems ==
    [kind : {"record"}, MajorVersion : 2..5, RecordLength : {80, 94}]
        \cup {[kind |-> "fill", MajorVersion |-> 0, RecordLength |-> 0]}

RECURSIVE LayUsn(_, _)
LayUsn(items, pos) ==
    IF items = <<>> THEN <<>>
    ELSE LET i == Head(items)
         IN  IF i.kind = "fill" THEN LayUsn(Tail(items), NextPage(pos))
             ELSE <<[pos |-> pos, MajorVersion |-> i.MajorVersion,
                     RecordLength |-> i.RecordLength, NumberOfExtents |-> 1]>>
                  \o LayUsn(Tail(items), Align8(pos + i.RecordLength))

\* The end of the stream: right after the last record, in the middle of it,
\* or at the end of its page
UsnSize(recs, lead, ending) ==
    LET last == IF recs = <<>> THEN [pos |-> lead, RecordLength |-> 0] ELSE recs[Len(recs)]
    IN  CASE ending = "exact" -> last.pos + last.RecordLength
          [] ending = "cut" -> last.pos + (last.RecordLength \div 2)
          [] ending = "page" -> NextPage(last.pos + last.RecordLength)

Journals ==
    { [recs |-> LayUsn(s, k * USN_PAGE_SIZE),
       size |-> UsnSize(LayUsn(s, k * USN_PAGE_SIZE), k * USN_PAGE_SIZE, e),
       is_runlist |-> r,
       runlist |-> IF r THEN [i \in 1..k |-> [is_none |-> TRUE, run_offset |-> 0, run_size |-> 1]]
                               \o <<[is_none |-> FALSE, run_offset |-> 100, run_size |-> 8]>>
                   ELSE <<>>,
       block_size |-> USN_PAGE_SIZE] :
      s \in UNION { [1..n -> UsnItems] : n \in 0..MaxUsnRecords },
      k \in 0..MaxSparseRuns, e \in {"exact", "cut", "page"}, r \in BOOLEAN }

\* fh.read(4) at o compared with four zero bytes (line 50)
FourZeros(j, o) ==
    /\ o + 4 <= j.size
    /\ \A i \in 1..Len(j.recs) : j.recs[i].pos # o

\* UsnRecord(self, fh, offset), lines 76-99: the record or the exception
UsnRecord(j, o) ==
    LET here == { i \in 1..Len(j.recs) : j.recs[i].pos = o }
    IN  IF o + 8 > j.size \/ here = {} THEN [err |-> "EOFError"]
        ELSE LET r == j.recs[CHOOSE i \in here : TRUE]
             IN  IF r.MajorVersion \notin {2, 3, 4} THEN [err |-> "ValueError"]
                 ELSE IF o + SizeOfUsnRecord(r.MajorVersion, r.NumberOfExtents) > j.size
                     THEN [err |-> "EOFError"]
                 ELSE [err |-> "", offset |-> o, MajorVersion |-> r.MajorVersion,
                       RecordLength |-> r.RecordLength]

\* lines 37-45: the leading sparse runs of a RunlistStream are skipped
RECURSIVE LeadingSparse(_, _)
LeadingSparse(runlist, block_size) ==
    IF runlist = <<>> \/ ~Head(runlist).is_none THEN 0
    ELSE Head(runlist).run_size * block_size + LeadingSparse(Tail(runlist), block_size)

RecordsEnter(x) ==
    [x EXCEPT !.pc = "loop",
              !.offset = IF x.fh.is_runlist THEN LeadingSparse(x.fh.runlist, x.fh.block_size)
                         ELSE 0]

Yielded_every_version(record) == TRUE

\* line 57
Yielded(record) == record.MajorVersion = 2

\* lines 47-63: one pass of the loop
RecordsIter(x) ==
    LET record == UsnRecord(x.fh, x.offset)
    IN  IF FourZeros(x.fh, x.offset)
            THEN [x EXCEPT !.offset = NextPage(@), !.last = "zeros"]
        ELSE IF record.err = "EOFError" THEN [x EXCEPT !.pc = "done", !.last = "eof"]
        ELSE IF record.err # "" THEN [x EXCEPT !.pc = record.err, !.last = "raise"]
        ELSE [x EXCEPT !.offset = Align8(@ + record.RecordLength),
                       !.last = "record",
                       !.decoded = Append(@, record),
                       !.out = IF Yielded(record) THEN Append(@, record) ELSE @]

RecordsCall ==
    /\ gp.pc = "records"
    /\ gp' = RecordsEnter(gp)
    /\ UNCHANGED <<fx, dr, ix, nt, sg, at>>

RecordsLoop ==
    /\ gp.pc = "loop"
    /\ "fh" \in DOMAIN gp
    /\ gp' = RecordsIter(gp)
    /\ UNCHANGED <<fx, dr, ix, nt, sg, at>>

UsnInit ==
    /\ gp \in { [pc |-> "records", fh |-> j, offset |-> 0, last |-> "", decoded |-> <<>>,
                 out |-> <<>>] : j \in Journals }
    /\ fx = Idle /\ dr = Idle /\ ix = Idle /\ nt = Idle /\ sg = Idle /\ at = Idle

UsnNext == RecordsCall \/ RecordsLoop

SpecUsn == UsnInit /\ [][UsnNext]_vars

InRecords == "fh" \in DOMAIN gp /\ gp.pc \in {"loop", "done", "ValueError"}

\* C17: records() yields only version 2 records, in strictly increasing
\* offset order; version 3 and 4 records are decoded and not yielded; after a
\* decoded record the cursor advances by RecordLength rounded up to a multiple
\* of 8; on four zero bytes it moves to the next 4096-byte boundary strictly
\* after the current offset.
C17_RecordsYieldsV2Forward ==
    /\ [](InRecords =>
            /\ \A i \in 1..Len(gp.out) : gp.out[i].MajorVersion = 2
            /\ \A i, k \in 1..Len(gp.out) : i < k => gp.out[i].offset < gp.out[k].offset
            /\ \A i \in 1..Len(gp.decoded) :
                  gp.decoded[i].MajorVersion \in {3, 4} =>
                      \A k \in 1..Len(gp.out) : gp.out[k].offset # gp.decoded[i].offset
            /\ gp.pc = "done" =>
                  \A i \in 1..Len(gp.fh.recs) :
                      LET r == gp.fh.recs[i]
                      IN  r.MajorVersion = 2 /\ r.pos + SizeOfUsnRecord(2, 0) <= gp.fh.size
                              => \E k \in 1..Len(gp.out) : gp.out[k].offset = r.pos)
    /\ [][InRecords /\ gp.pc = "loop" =>
            /\ gp'.last = "record" =>
                  LET r == gp'.decoded[Len(gp'.decoded)]
                  IN  /\ r.offset = gp.offset
                      /\ gp'.offset = gp.offset + 8 * ((r.RecordLength + 7) \div 8)
            /\ gp'.last = "zeros" =>
                  /\ gp'.offset > gp.offset
                  /\ gp'.offset % 4096 = 0
                  /\ gp'.offset - gp.offset <= 4096
                  /\ gp'.out = gp.out /\ gp'.decoded = gp.decoded]_vars

\* A version 2 record was yielded after a version 3 record of unaligned
\* length was passed over and a zero region was skipped
C17_Witness ==
    /\ InRecords /\ gp.pc = "done" /\ ~gp.fh.is_runlist
    /\ Len(gp.decoded) = 3 /\ Len(gp.out) = 1
    /\ gp.decoded[1].MajorVersion = 3 /\ gp.decoded[1].RecordLength = 94
    /\ gp.decoded[2].MajorVersion = 4
    /\ gp.out[1].offset > 4096

(***************************************************************************)
(* mft.MftRecord.resident                                                  *)
(***************************************************************************)
MaxAttrs == 3

\* The attribute records of an MFT record, in the order they are stored:
\* FormCode 0 is resident
StoredAttributes ==
    UNION { [1..n -> [TypeCode : {"STANDARD_INFORMATION", "DATA"},
                      name : {"", "Zone.Identifier"},
                      FormCode : {0, 1}]] : n \in 0..MaxAttrs }

\* AttributeHeader.resident (attr.py lines 146-148)
HeaderResident(header) == header.FormCode = 0

\* MftRecord.attributes, lines 203-236, on a record without $ATTRIBUTE_LIST:
\* the AttributeMap, keyed by type code
ParseStored(stored) ==
    [t \in {stored[i].TypeCode : i \in 1..Len(stored)} |->
        SelectSeq(stored, LAMBDA a : a.TypeCode = t)]

\* AttributeMap.__getitem__ (util.py lines 46-49)
AttributeMapGet(attrs, item) == IF item \in DOMAIN attrs THEN attrs[item] ELSE <<>>

\* MftRecord.resident, line 241
Resident(attrs) ==
    \E i \in 1..Len(AttributeMapGet(attrs, "DATA")) :
        HeaderResident(AttributeMapGet(attrs, "DATA")[i])

ResidentAttributes ==
    /\ at.pc = "record"
    /\ at' = [at EXCEPT !.pc = "parsed", !.attributes = ParseStored(at.stored)]
    /\ UNCHANGED <<fx, dr, ix, nt, gp, sg>>

ResidentCall ==
    /\ at.pc = "parsed"
    /\ at' = [at EXCEPT !.pc = "answered", !.resident = Resident(at.attributes)]
    /\ UNCHANGED <<fx, dr, ix, nt, gp, sg>>

ResidentInit ==
    /\ at \in { [pc |-> "record", stored |-> s, attributes |-> <<>>, resident |-> FALSE] :
                s \in StoredAttributes }
    /\ fx = Idle /\ dr = Idle /\ ix = Idle /\ nt = Idle /\ gp = Idle /\ sg = Idle

ResidentNext == ResidentAttributes \/ ResidentCall

SpecResident == ResidentInit /\ [][ResidentNext]_vars

\* The record's unnamed $DATA attributes
DefaultData == SelectSeq(at.stored, LAMBDA a : a.TypeCode = "DATA" /\ a.name = "")

\* C18: resident is true exactly when the record's unnamed $DATA attribute is
\* resident, whatever the residency of its named $DATA streams.
C18_ResidentIsDefaultData ==
    at.pc = "answered" =>
        (at.resident <=> \E i \in 1..Len(DefaultData) : DefaultData[i].FormCode = 0)

\* What the code computes: some $DATA attribute, named or not, is resident
C18_ResidentIsAnyData ==
    at.pc = "answered" =>
        (at.resident <=> \E i \in 1..Len(at.stored) :
                            at.stored[i].TypeCode = "DATA" /\ at.stored[i].FormCode = 0)

(***************************************************************************)
(* index.Index.search on indexes whose child pointers need not form a tree *)
(***************************************************************************)
MaxVisits == 4

\* Entry i of the buffer at VCN w - 1 points to the buffer at VCN v
Redirect(t, w, i, v) ==
    [t EXCEPT !.stream[w].entries[i] = [@ EXCEPT !.is_node = TRUE, !.node_vcn = v]]

\* Every tree over all the keys with one entry of one buffer pointing to any
\* buffer of the stream: the buffer itself, one above it, or a proper child
LoopedTrees(rule) ==
    UNION { UNION { { Redirect(t, w, i, v) :
                        i \in 1..Len(t.stream[w].entries), v \in 0..(Len(t.stream) - 1) }
                    : w \in 1..Len(t.stream) }
            : t \in TreesAfter({[root |-> LeafNode(rule, SortedSeq(1..MaxKey)), stream |-> <<>>]},
                               MaxBuffers) }

LoopedFrames(rule) ==
    { IndexFrame(rule, t, "search", v, TRUE) : t \in LoopedTrees(rule), v \in SearchValues(rule) }

\* index.py lines 112-117: one pass of the loop.  The record of the nodes
\* visited starts over with the latest one once it holds more than MaxVisits.
SearchLoopAgain ==
    /\ ix.pc = "loop"
    /\ ix' = [SearchIter(ix) EXCEPT !.visited = IF Len(@) > MaxVisits THEN <<@[Len(@)]>> ELSE @]
    /\ UNCHANGED <<fx, dr, nt, gp, sg, at>>

LoopedInit ==
    /\ ix \in LoopedFrames(COLLATION.NTOFS_ULONG)
    /\ fx = Idle /\ dr = Idle /\ nt = Idle /\ gp = Idle /\ sg = Idle /\ at = Idle

LoopedNext == SearchCall \/ SearchLoopAgain \/ SearchCheck

\* search() keeps running as long as it has a step to take
SpecLoopedSearch == LoopedInit /\ [][LoopedNext]_vars /\ WF_vars(LoopedNext)

\* C19: search() on any index, also one where the entry chosen in a buffer
\* points to a buffer already visited, returns or raises after finitely many
\* node visits.
C19_SearchTerminates == <>(ix.pc \notin {"call", "loop", "check"})

\* The search is in a buffer that it has been sent to by that same buffer
C19_SameBufferAgain ==
    /\ ix.pc = "loop" /\ Len(ix.visited) >= 2
    /\ ix.visited[Len(ix.visited)] = ix.visited[Len(ix.visited) - 1]

(***************************************************************************)
(* index.Index.entries with the buffer size that $INDEX_ROOT declares      *)
(***************************************************************************)
MaxOverrun == 2

\* Index.__init__ lines 52-55, on a volume with the default cluster size
VcnSizeShift(x) ==
    IF DEFAULT_CLUSTER_SIZE <= x.bytes_per_index_buffer THEN 12 ELSE SECTOR_SHIFT

StreamBytes(x) == Len(x.stream) * DEFAULT_INDEX_SIZE

\* len(fh.read(size)) after fh.seek(offset), IndexBuffer.__init__ lines 214-215
ReadLength(x, offset, size) ==
    LET left == IF offset >= StreamBytes(x) THEN 0 ELSE StreamBytes(x) - offset
    IN  IF size < left THEN size ELSE left

\* Index.index_buffer (lines 75-78) and IndexBuffer.__init__ (lines 209-224)
\* for buffers of bytes_per_index_buffer bytes: a whole buffer of the stream,
\* or no bytes at all
IndexBufferOfSize(x, vcn) ==
    LET size == x.bytes_per_index_buffer
        offset == vcn * Pow2(VcnSizeShift(x))
    IN  IF ~x.has_stream THEN [err |-> "FileNotFoundError"]
        ELSE IF ReadLength(x, offset, size) # size THEN [err |-> "EOFError"]
        ELSE IF size < 4 THEN [err |-> "BrokenIndexError"]
        ELSE index_buffer(x, offset \div DEFAULT_INDEX_SIZE)

\* index.py lines 135-147: one pass of the loop
EntriesIterOfSize(x) ==
    LET buf == IndexBufferOfSize(x, x.vcn)
    IN  IF buf.err = "EOFError" THEN [x EXCEPT !.pc = "done"]
        ELSE IF buf.err \in NtfsErrors THEN [x EXCEPT !.vcn = x.vcn + 1]
        ELSE IF buf.err # "" THEN [x EXCEPT !.pc = buf.err]
        ELSE [x EXCEPT !.vcn = x.vcn + 1,
                       !.out = x.out \o [i \in 1..Len(NonEnd(buf.entries)) |->
                                           [entry |-> NonEnd(buf.entries)[i], node |-> x.vcn]]]

\* The passes are followed until the loop is MaxOverrun buffers past the end
\* of the stream
EntriesBufferOfSize ==
    /\ ix.pc = "buffers"
    /\ ix.vcn * Pow2(VcnSizeShift(ix)) < StreamBytes(ix) + MaxOverrun * Pow2(VcnSizeShift(ix))
    /\ ix' = EntriesIterOfSize(ix)
    /\ UNCHANGED <<fx, dr, nt, gp, sg, at>>

\* Trees whose buffers all have their magic overwritten
AllBroken(t) == [t EXCEPT !.stream = [i \in 1..Len(t.stream) |-> [t.stream[i] EXCEPT !.kind = "badmagic"]]]

SizedFrames(rule) ==
    { IndexFrame(rule, t, "entries", NoValue(rule), TRUE) @@ [bytes_per_index_buffer |-> b] :
        t \in GrownTrees(rule) \cup { AllBroken(u) : u \in GrownTrees(rule) },
        b \in {0, DEFAULT_INDEX_SIZE} }

SizedInit ==
    /\ \E rule \in Rules : ix \in SizedFrames(rule)
    /\ fx = Idle /\ dr = Idle /\ nt = Idle /\ gp = Idle /\ sg = Idle /\ at = Idle

SizedNext == EntriesCall \/ EntriesBufferOfSize

SpecSizedEntries == SizedInit /\ [][SizedNext]_vars

\* C20: entries() ends after a number of passes of the VCN loop bounded by the
\* size of the $INDEX_ALLOCATION stream, also when $INDEX_ROOT declares
\* BytesPerIndexBuffer = 0 and when every buffer is broken: the loop never
\* asks for a buffer that starts past the end of the stream.
C20_EntriesEndsWithinStream ==
    ix.pc = "buffers" /\ "bytes_per_index_buffer" \in DOMAIN ix =>
        ix.vcn * Pow2(VcnSizeShift(ix)) <= StreamBytes(ix)

\* With buffers of the default size the loop does end at the end of the
\* stream, broken buffers or not
C20_EndsWithinStreamAtDefaultSize ==
    ix.pc = "buffers" /\ "bytes_per_index_buffer" \in DOMAIN ix
        /\ ix.bytes_per_index_buffer = DEFAULT_INDEX_SIZE =>
        ix.vcn * Pow2(VcnSizeShift(ix)) <= StreamBytes(ix)

(***************************************************************************)
(* util.AttributeCollection: open, size, dataruns                          *)
(***************************************************************************)
MaxMembers == 3

\* An attribute backing a piece of a stream: piece k starts at VCN 2(k - 1)
\* and holds one run of two clusters; every piece declares sizes of its own,
\* so that the piece a size was taken from can be told
Member(k, resident, compressed) ==
    [header |-> [resident |-> resident, lowest_vcn |-> 2 * (k - 1),
                 dataruns |-> <<Run(10 * k, 2)>>,
                 size |-> 1000 * k, allocated_size |-> 1000 * k + 24,
                 flags |-> IF compressed THEN 1 ELSE 0]]

Collections ==
    UNION { { [i \in 1..n |-> Member(ks[i], rs[i], cs[i])] :
                ks \in { f \in [1..n -> 1..MaxMembers] :
                            \A i, j \in 1..n : f[i] = f[j] => i = j },
                rs \in [1..n -> BOOLEAN], cs \in [1..n -> BOOLEAN] } : n \in 0..MaxMembers }

\* sorted(..., key=lowest_vcn): a stable sort
RECURSIVE SortedByLowestVcn(_)
SortedByLowestVcn(attrs) ==
    IF attrs = <<>> THEN <<>>
    ELSE LET m == CHOOSE i \in 1..Len(attrs) :
                    /\ \A j \in 1..Len(attrs) :
                          attrs[i].header.lowest_vcn <= attrs[j].header.lowest_vcn
                    /\ \A j \in 1..(i - 1) :
                          attrs[j].header.lowest_vcn # attrs[i].header.lowest_vcn
         IN  <<attrs[m]>> \o SortedByLowestVcn([k \in 1..(Len(attrs) - 1) |->
                                                  IF k < m THEN attrs[k] ELSE attrs[k + 1]])

_get_stream_attrs_as_added(self) == SelectSeq(self, LAMBDA attr : ~attr.header.resident)

\* util.py lines 168-169
_get_stream_attrs(self) ==
    SortedByLowestVcn(SelectSeq(self, LAMBDA attr : ~attr.header.resident))

\* util.py lines 171-178
_get_dataruns(self) ==
    Concat([i \in 1..Len(_get_stream_attrs(self)) |->
              _get_stream_attrs(self)[i].header.dataruns])

NoStream == [err |-> "", kind |-> "", runs |-> <<>>, size |-> 0, compressed |-> FALSE]

\* AttributeCollection.dataruns, lines 157-166; self.header is the header of
\* the first member (lines 95-102)
CollectionDataruns(self) ==
    IF self = <<>> THEN [NoStream EXCEPT !.err = "AttributeError"]
    ELSE IF self[1].header.resident THEN [NoStream EXCEPT !.err = "TypeError"]
    ELSE [NoStream EXCEPT !.runs = _get_dataruns(self)]

\* AttributeCollection.size, lines 142-155
CollectionSize(self, allocated) ==
    IF self = <<>> THEN [NoStream EXCEPT !.err = "AttributeError"]
    ELSE IF self[1].header.resident THEN [NoStream EXCEPT !.size = self[1].header.size]
    ELSE LET attrs == _get_stream_attrs(self)
         IN  [NoStream EXCEPT !.size = IF allocated THEN attrs[1].header.allocated_size
                                        ELSE attrs[1].header.size]

\* AttributeCollection.open, lines 104-140
CollectionOpen(self, allocated, has_volume) ==
    IF self = <<>> THEN [NoStream EXCEPT !.err = "AttributeError"]
    ELSE IF self[1].header.resident
        THEN [NoStream EXCEPT !.kind = "BytesIO", !.size = self[1].header.size]
    ELSE LET attrs == _get_stream_attrs(self)
         IN  IF ~has_volume THEN [NoStream EXCEPT !.err = "VolumeNotAvailableError"]
             ELSE [NoStream EXCEPT
                     !.kind = IF attrs[1].header.flags # 0 THEN "CompressedRunlistStream"
                              ELSE "RunlistStream",
                     !.runs = _get_dataruns(self),
                     !.size = IF allocated THEN attrs[1].header.allocated_size
                              ELSE attrs[1].header.size,
                     !.compressed = attrs[1].header.flags # 0]

CollectionCall ==
    /\ at.pc = "collection"
    /\ at' = [at EXCEPT !.pc = "answered",
                        !.result = CASE at.op = "dataruns" -> CollectionDataruns(at.self)
                                     [] at.op = "size" -> CollectionSize(at.self, at.allocated)
                                     [] at.op = "open" ->
                                          CollectionOpen(at.self, at.allocated, at.has_volume)]
    /\ UNCHANGED <<fx, dr, ix, nt, gp, sg>>

CollectionInit ==
    /\ at \in { [pc |-> "collection", self |-> c, op |-> op, allocated |-> a, has_volume |-> v,
                 result |-> NoStream] :
                c \in Collections, op \in {"dataruns", "size", "open"}, a \in BOOLEAN,
                v \in BOOLEAN }
    /\ fx = Idle /\ dr = Idle /\ ix = Idle /\ nt = Idle /\ gp = Idle /\ sg = Idle

SpecCollection == CollectionInit /\ [][CollectionCall]_vars

CollectionAnswered == at.pc = "answered" /\ "self" \in DOMAIN at

\* The members of the collection from the lowest VCN up
Ascending(c) ==
    [r \in 1..Len(c) |->
        c[CHOOSE i \in 1..Len(c) :
            Cardinality({ j \in 1..Len(c) :
                            c[j].header.lowest_vcn < c[i].header.lowest_vcn }) = r - 1]]

AllNonResident(c) == c # <<>> /\ \A i \in 1..Len(c) : ~c[i].header.resident

\* C21: for a collection of non-resident attributes, dataruns() and open()
\* use the members' runlists concatenated in ascending lowest-VCN order, and
\* size() and open() take the size (real or allocated) and the compression
\* flag from the member with the lowest VCN, whatever the order of addition.
C21_CollectionOrderedByLowestVcn ==
    CollectionAnswered /\ AllNonResident(at.self) =>
        LET asc == Ascending(at.self)
            runs == Concat([i \in 1..Len(asc) |-> asc[i].header.dataruns])
            size == IF at.allocated THEN asc[1].header.allocated_size ELSE asc[1].header.size
        IN  /\ at.op = "dataruns" => at.result.err = "" /\ at.result.runs = runs
            /\ at.op = "size" => at.result.err = "" /\ at.result.size = size
            /\ at.op = "open" /\ at.has_volume =>
                  /\ at.result.err = ""
                  /\ at.result.runs = runs
                  /\ at.result.size = size
                  /\ at.result.compressed = (asc[1].header.flags # 0)

\* A compressed stream of three pieces added highest VCN first was opened
C21_Witness ==
    /\ CollectionAnswered /\ AllNonResident(at.self)
    /\ at.op = "open" /\ at.has_volume /\ at.allocated
    /\ Len(at.self) = 3
    /\ at.self[1].header.lowest_vcn = 4 /\ at.self[3].header.lowest_vcn = 0
    /\ at.result.kind = "CompressedRunlistStream"

\* C22: dataruns() fails with TypeError if any member of the collection is
\* resident, wherever that member stands in the collection.
C22_DatarunsFailsOnAnyResident ==
    CollectionAnswered /\ at.op = "dataruns"
        /\ (\E i \in 1..Len(at.self) : at.self[i].header.resident)
        => at.result.err = "TypeError"

\* What the code checks: the first member only
C22_DatarunsFailsOnFirstResident ==
    CollectionAnswered /\ at.op = "dataruns" /\ at.self # <<>> =>
        (at.result.err = "TypeError" <=> at.self[1].header.resident)

\* C23: the run length of a mapping pair is the unsigned little-endian value
\* of its length bytes, also when the top bit of the last byte is set (0x80
\* is 128 clusters), and no decoded run has a negative length.
C23_RunLengthUnsigned ==
    dr.pc = "returned" /\ "pairs" \in DOMAIN dr =>
        \A i \in 1..Len(dr.runs) :
            /\ dr.runs[i].len = LEValue(dr.pairs[i].size)
            /\ dr.runs[i].len >= 0

\* What the code computes: the length bytes read as a signed number
C23_RunLengthSigned ==
    dr.pc = "returned" /\ "pairs" \in DOMAIN dr =>
        \A i \in 1..Len(dr.runs) : dr.runs[i].len = SignedField(dr.pairs[i].size)

\* The first entry of a node that is the END entry or whose key is not below
\* the value
FirstAtLeast(x) ==
    x.entries[CHOOSE i \in 1..Len(x.entries) :
                /\ x.entries[i].is_end \/ Compare(x.cmp, x.entries[i], x.search_value) # "Greater"
                /\ \A j \in 1..(i - 1) :
                      ~x.entries[j].is_end
                          /\ Compare(x.cmp, x.entries[j], x.search_value) = "Greater"]

\* C24: in a node sorted with the END entry last, the binary search returns
\* the first entry whose key is greater than or equal to the value, the END
\* entry when every key is smaller, and the comparator is never called on an
\* END entry.
C24_BsearchFirstAtLeast ==
    /\ [](ix.pc # "idle" => ~ix.end_cmp)
    /\ [][ix.pc = "loop" => ix'.entry = FirstAtLeast(ix)]_vars

\* A search went down to a leaf all of whose keys are below the value and
\* ended on its END entry
C24_Witness ==
    /\ ix.pc = "KeyError" /\ ix.op = "search"
    /\ ix.entry.is_end /\ Len(ix.visited) = 2
    /\ Len(ix.entries) > 1

(***************************************************************************)
(* index.Index: the byte offset of the buffer at a VCN                     *)
(***************************************************************************)
MaxVcn == 3

\* c_ntfs.bsf on a non-zero value: the number of trailing zero bits
RECURSIVE bsf(_)
bsf(value) == IF value % 2 = 1 THEN 0 ELSE 1 + bsf(value \div 2)

\* Volumes by sector size and sectors per cluster (ntfs.py lines 55-60, 79-80),
\* or no volume at all
Geometries ==
    { [has_ntfs |-> TRUE, sector_size |-> s, cluster_size |-> n * s,
       cluster_size_shift |-> bsf(n * s)] : s \in {512, 1024, 4096}, n \in {1, 2, 8, 16} }
    \cup { [has_ntfs |-> FALSE, sector_size |-> 512, cluster_size |-> 0, cluster_size_shift |-> 0] }

\* Index.__init__, lines 52-55
IndexVcnSizeShift(ntfs, bytes_per_index_buffer) ==
    IF ntfs.has_ntfs /\ ntfs.cluster_size <= bytes_per_index_buffer
        THEN ntfs.cluster_size_shift
    ELSE SECTOR_SHIFT

\* Index.index_buffer, line 78: vcn << self._vcn_size_shift
IndexBufferOffset(vcn, shift) == vcn * Pow2(shift)

IndexOpen ==
    /\ ix.pc = "open"
    /\ ix' = [ix EXCEPT !.pc = "opened",
                        !._vcn_size_shift = IndexVcnSizeShift(ix.ntfs, ix.bytes_per_index_buffer)]
    /\ UNCHANGED <<fx, dr, nt, gp, sg, at>>

IndexBufferAt ==
    /\ ix.pc = "opened"
    /\ \E vcn \in 0..MaxVcn :
          ix' = [ix EXCEPT !.pc = "located", !.vcn = vcn,
                           !.offset = IndexBufferOffset(vcn, ix._vcn_size_shift)]
    /\ UNCHANGED <<fx, dr, nt, gp, sg, at>>

VcnInit ==
    /\ ix \in { [pc |-> "open", ntfs |-> g, bytes_per_index_buffer |-> b, _vcn_size_shift |-> 0,
                 vcn |-> 0, offset |-> 0] :
                g \in Geometries, b \in {512, 1024, 4096} }
    /\ fx = Idle /\ dr = Idle /\ nt = Idle /\ gp = Idle /\ sg = Idle /\ at = Idle

VcnNext == IndexOpen \/ IndexBufferAt

SpecVcn == VcnInit /\ [][VcnNext]_vars

\* C25: the buffer at a VCN starts at VCN times the cluster size C when C is
\* at most the bytes per index buffer, and at VCN times the volume's sector
\* size S otherwise, whatever the sector size.
C25_VcnTimesClusterOrSector ==
    ix.pc = "located" /\ ix.ntfs.has_ntfs =>
        ix.offset = ix.vcn * (IF ix.ntfs.cluster_size <= ix.bytes_per_index_buffer
                                THEN ix.ntfs.cluster_size
                              ELSE ix.ntfs.sector_size)

\* What the code computes: in the second case VCN times 512
C25_VcnTimesClusterOr512 ==
    ix.pc = "located" /\ ix.ntfs.has_ntfs =>
        ix.offset = ix.vcn * (IF ix.ntfs.cluster_size <= ix.bytes_per_index_buffer
                                THEN ix.ntfs.cluster_size
                              ELSE 512)

(***************************************************************************)
(* stream.CompressedRunlistStream._read: one compression unit              *)
(***************************************************************************)
UnitClusters == 4
ClusterBytes == 2

compression_unit_size == UnitClusters * ClusterBytes

\* The runs of one compression unit: every way to cut its clusters into runs,
\* each run sparse (lcn None) or stored at an LCN of its own
RECURSIVE UnitRuns(_, _)
UnitRuns(left, n) ==
    IF left = 0 THEN {<<>>}
    ELSE UNION { { <<[is_none |-> s, lcn |-> 10 * n, run_count |-> c]>> \o rest :
                     s \in BOOLEAN, rest \in UnitRuns(left - c, n + 1) } : c \in 1..left }

\* self._fh.read(run_len) after seek(lcn * block_size): the bytes of the
\* source, each telling its own position
SourceBytes(lcn, run_len) == [i \in 1..run_len |-> lcn * ClusterBytes + i - 1]

\* lines 87-100: the loop over the runs of the unit, from run i on
RECURSIVE ReadRuns(_, _, _, _)
ReadRuns(runs, i, acc, total_remaining) ==
    IF i > Len(runs) THEN acc
    ELSE IF runs[i].is_none
        THEN ReadRuns(runs, i + 1, [acc EXCEPT !.compressed = TRUE], total_remaining)
    ELSE LET run_len == runs[i].run_count * ClusterBytes
             next == [acc EXCEPT !.buf = @ \o SourceBytes(runs[i].lcn, run_len),
                                 !.reads = Append(@, [lcn |-> runs[i].lcn, run_len |-> run_len]),
                                 !.buf_len = @ + run_len]
         IN  IF next.buf_len = total_remaining THEN next
             ELSE ReadRuns(runs, i + 1, next, total_remaining)

\* lines 102-113: what the unit reads as.  The LZNT1 decoder is not modelled:
\* its result is named by its input and by the length it is cut to.
ReadUnit_without_pad(runs, total_remaining) ==
    LET r == ReadRuns(runs, 1, [buf |-> <<>>, buf_len |-> 0, compressed |-> FALSE,
                                reads |-> <<>>], total_remaining)
    IN  IF r.reads = <<>>
            THEN [kind |-> "zeros", data |-> [i \in 1..compression_unit_size |-> 0],
                  reads |-> r.reads, cut |-> 0]
        ELSE IF r.compressed
            THEN [kind |-> "lznt1", data |-> r.buf, reads |-> r.reads,
                  cut |-> compression_unit_size]
        ELSE [kind |-> "raw", data |-> r.buf, reads |-> r.reads, cut |-> 0]

ReadUnit(runs, total_remaining) ==
    LET r == ReadRuns(runs, 1, [buf |-> <<>>, buf_len |-> 0, compressed |-> FALSE,
                                reads |-> <<>>], total_remaining)
    IN  IF r.reads = <<>>
            THEN [kind |-> "zeros", data |-> [i \in 1..compression_unit_size |-> 0],
                  reads |-> r.reads, cut |-> 0]
        ELSE IF r.compressed
            THEN [kind |-> "lznt1", data |-> r.buf \o [i \in 1..64 |-> 0], reads |-> r.reads,
                  cut |-> compression_unit_size]
        ELSE [kind |-> "raw", data |-> r.buf, reads |-> r.reads, cut |-> 0]

CuRead ==
    /\ nt.pc = "read"
    /\ nt' = [nt EXCEPT !.pc = "unit", !.result = ReadUnit(nt.runs, nt.total_remaining)]
    /\ UNCHANGED <<fx, dr, ix, gp, sg, at>>

\* total_remaining is what the stream holds from the start of the unit on:
\* part of the unit, or the unit and more
CuInit ==
    /\ nt \in { [pc |-> "read", runs |-> r, total_remaining |-> t,
                 result |-> [kind |-> "", data |-> <<>>, reads |-> <<>>, cut |-> 0]] :
                r \in UnitRuns(UnitClusters, 1), t \in 1..(2 * compression_unit_size) }
    /\ fx = Idle /\ dr = Idle /\ ix = Idle /\ gp = Idle /\ sg = Idle /\ at = Idle

SpecCuRead == CuInit /\ [][CuRead]_vars

CuEnded == nt.pc = "unit" /\ "runs" \in DOMAIN nt

NonSparse(runs) == SelectSeq(runs, LAMBDA r : ~r.is_none)

NonSparseBytes(runs) ==
    Concat([i \in 1..Len(NonSparse(runs)) |->
              SourceBytes(NonSparse(runs)[i].lcn, NonSparse(runs)[i].run_count * ClusterBytes)])

\* Non-sparse runs first, then at least one sparse run, and nothing else
SparseTail(runs) ==
    \E k \in 1..(Len(runs) - 1) :
        /\ \A i \in 1..k : ~runs[i].is_none
        /\ \A i \in (k + 1)..Len(runs) : runs[i].is_none

Reached(runs, total_remaining) ==
    LET stops == { k \in 1..Len(runs) :
                     /\ ~runs[k].is_none
                     /\ Len(NonSparseBytes(SubSeq(runs, 1, k))) = total_remaining }
    IN  IF stops = {} THEN runs
        ELSE SubSeq(runs, 1, CHOOSE k \in stops : \A j \in stops : k <= j)

C26_WitnessRawTail ==
    /\ CuEnded /\ nt.result.kind = "raw"
    /\ SparseTail(nt.runs)

(***************************************************************************)
(* secure.Secure._iter_entries from offset 0 over any $SDS contents        *)
(***************************************************************************)
\* Where headers are stored, and what they may hold: a short, a usual or an
\* oversized length, and an offset field inside or beyond the stream
HeaderPlaces == <<0, 16, 48, 262144>>

HeaderKinds == {"none", "short", "usual", "oversized", "beyond"}

HeaderOfKind(kind, pos, size) ==
    [pos |-> pos, SecurityId |-> 256,
     Offset |-> IF kind = "beyond" THEN size + 1 ELSE 0,
     Length |-> CASE kind = "short" -> 4 [] kind = "oversized" -> 70000 [] OTHER -> 40]

AnySdsStreams ==
    { [size |-> size,
       at |-> LET all == [i \in 1..Len(HeaderPlaces) |-> i]
                  kept == SelectSeq(all, LAMBDA i : ks[i] # "none")
              IN  [n \in 1..Len(kept) |-> HeaderOfKind(ks[kept[n]], HeaderPlaces[kept[n]], size)]] :
      ks \in [1..Len(HeaderPlaces) -> HeaderKinds], size \in {0, 30, 100, 262144 + 100, 2 * 262144} }

IterEntries_same_block(x) ==
    LET entry == ReadHeader(x.sds, x.offset)
    IN  IF entry.err # "" THEN [x EXCEPT !.pc = "done", !.last = "eof"]
        ELSE IF entry.Length = 0 \/ entry.Offset > x.sds.size \/ entry.Length > 65536
            THEN [x EXCEPT !.offset = @ + ((262144 - (@ % 262144)) % 262144), !.last = "skipped",
                           !.reads = Append(@, x.offset)]
        ELSE [x EXCEPT !.offset = Align16(@ + entry.Length), !.last = "yielded",
                       !.reads = Append(@, x.offset),
                       !.out = Append(@, [pos |-> x.offset, Length |-> entry.Length])]

\* One pass of the loop of Secure._iter_entries, lines 49-66
IterEntries(x) ==
    LET entry == ReadHeader(x.sds, x.offset)
    IN  IF entry.err # "" THEN [x EXCEPT !.pc = "done", !.last = "eof"]
        ELSE IF entry.Length = 0 \/ entry.Offset > x.sds.size \/ entry.Length > 65536
            THEN [x EXCEPT !.offset = @ + (262144 - (@ % 262144)), !.last = "skipped",
                           !.reads = Append(@, x.offset)]
        ELSE [x EXCEPT !.offset = Align16(@ + entry.Length), !.last = "yielded",
                       !.reads = Append(@, x.offset),
                       !.out = Append(@, [pos |-> x.offset, Length |-> entry.Length])]

SdsEntry ==
    /\ sg.pc = "entries"
    /\ sg' = IterEntries(sg)
    /\ UNCHANGED <<fx, dr, ix, nt, gp, at>>

SdsIterInit ==
    /\ sg \in { [pc |-> "entries", sds |-> s, offset |-> 0, last |-> "", reads |-> <<>>,
                 out |-> <<>>] : s \in AnySdsStreams }
    /\ fx = Idle /\ dr = Idle /\ ix = Idle /\ nt = Idle /\ gp = Idle /\ at = Idle

\* the generator is run to its end
SpecSdsIter == SdsIterInit /\ [][SdsEntry]_vars /\ WF_vars(SdsEntry)

\* The header stored at the cursor, if any
HeaderAtCursor == { i \in 1..Len(sg.sds.at) : sg.sds.at[i].pos = sg.offset }

BadHeaderAtCursor ==
    \/ HeaderAtCursor = {}
    \/ \E i \in HeaderAtCursor : sg.sds.at[i].Offset > sg.sds.size \/ sg.sds.at[i].Length > 65536

RECURSIVE FirstMentions(_, _)
FirstMentions(list, skip) ==
    IF list = <<>> THEN <<>>
    ELSE IF Head(list) = 0 \/ Head(list) \in skip THEN FirstMentions(Tail(list), skip)
    ELSE <<Head(list)>> \o FirstMentions(Tail(list), skip \cup {Head(list)})

\* The attributes of a record as they should be merged: its own in record
\* order, then those of each child in the order of the list
RECURSIVE Merged(_, _, _)
Merged(a, segment, depth) ==
    LET kids == FirstMentions(a.vol[segment].list, {segment})
    IN  ParseOwn(a.vol, segment)
          \o (IF a.vol[segment].has_list /\ a.has_mft /\ depth < MaxDepth
                THEN Concat([i \in 1..Len(kids) |-> Merged(a, kids[i], depth + 1)])
              ELSE <<>>)

OfType(attrs, t) == SelectSeq(attrs, LAMBDA x : x.type = t)

\* C28: resolving the attribute list of a record got by segment number loads
\* each child the list names once and never the record itself, and within each
\* attribute type the merged map holds the record's own attributes in record
\* order and then the children's attributes in the order of the list.
C28_AttributeListMergedInOrder ==
    at.pc = "returned" /\ "vol" \in DOMAIN at =>
        /\ \A t \in {"DATA", "ATTRIBUTE_LIST"} :
              OfType(at.attrs, t) = OfType(Merged(at, at.start, 1), t)
        /\ Len(SelectSeq(at.attrs, LAMBDA x : x.owner = at.start))
              = Len(ParseOwn(at.vol, at.start))
        /\ \A i \in 1..Len(at.vol[at.start].list) :
              LET child == at.vol[at.start].list[i]
              IN  /\ child \notin {0, at.start} /\ at.has_mft
                  /\ \A j \in 1..Len(at.vol[at.start].list) :
                        at.vol[at.start].list[j] # 0
                            => ~at.vol[at.vol[at.start].list[j]].has_list
                  =>
                        Len(SelectSeq(at.attrs, LAMBDA x : x.owner = child))
                            = Len(ParseOwn(at.vol, child))

\* A list that names the same child twice was resolved
C28_Witness ==
    /\ at.pc = "returned" /\ "vol" \in DOMAIN at /\ at.has_mft
    /\ at.start = 16
    /\ at.vol[16].list = <<17, 17>>
    /\ Len(at.attrs) = 3

\* ------------------------------------------------------------------------
\* Full paths: util.py get_full_path walks the parent references of the file
\* names up to the root directory.
\* ------------------------------------------------------------------------

MaxSequence == 2

FullPathSegments == {16, 17}

\* _MFT_SEGMENT_REFERENCE: a segment number and a sequence number
References ==
    [segment : FullPathSegments \cup {FILE_NUMBER_ROOT}, sequence : 1..MaxSequence]

\* A record of the MFT as get_full_path sees it: mft.get raises for a missing
\* one, record.filename is None for an unnamed one
FullPathRecords ==
    [kind : {"named", "unnamed", "missing"}, sequence : 1..MaxSequence,
     parent : References]

Component(kind, segment, sequence) ==
    [kind |-> kind, segment |-> segment, sequence |-> sequence]

\* util.py lines 252-277: one turn of the loop of get_full_path
GetFullPathLoop(g) ==
    LET parent_ref == g.parent.segment
        record == g.mft[parent_ref]
        ended(c) == [g EXCEPT !.pc = "returned", !.path = Append(@, c)]
    IN  IF parent_ref = FILE_NUMBER_ROOT THEN [g EXCEPT !.pc = "returned"]
        ELSE IF parent_ref \in g.seen THEN ended(Component("recursion", 0, 0))
        ELSE LET h == [g EXCEPT !.seen = @ \cup {parent_ref},
                                !.loaded = Append(@, parent_ref)]
                 broken == [ended(Component("broken_reference", parent_ref,
                                            g.parent.sequence))
                               EXCEPT !.seen = h.seen, !.loaded = h.loaded]
                 unknown == [ended(Component("unknown_segment", parent_ref, 0))
                               EXCEPT !.seen = h.seen, !.loaded = h.loaded]
             IN  IF record.kind = "missing" THEN unknown
                 ELSE IF record.kind = "unnamed" THEN unknown
                 ELSE IF record.sequence # g.parent.sequence THEN broken
                 ELSE [h EXCEPT !.path = Append(@, Component("name", parent_ref, 0)),
                                !.parent = record.parent]

\* util.py lines 248-250: seen = seen or set(); path = [name]
GetFullPathCall ==
    /\ gp.pc = "full_path"
    /\ gp' = [gp EXCEPT !.pc = "walk", !.seen = {},
                        !.path = <<Component("name", 0, 0)>>]
    /\ UNCHANGED <<fx, dr, ix, nt, sg, at>>

GetFullPathTurn ==
    /\ gp.pc = "walk"
    /\ gp' = GetFullPathLoop(gp)
    /\ UNCHANGED <<fx, dr, ix, nt, sg, at>>

FullPathInit ==
    /\ gp \in { [pc |-> "full_path", mft |-> m, parent |-> r, seen |-> {},
                 loaded |-> <<>>, path |-> <<>>] :
                   m \in [FullPathSegments -> FullPathRecords], r \in References }
    /\ fx = Idle /\ dr = Idle /\ ix = Idle /\ nt = Idle /\ sg = Idle /\ at = Idle

FullPathNext == GetFullPathCall \/ GetFullPathTurn

SpecFullPath == FullPathInit /\ [][FullPathNext]_vars /\ WF_vars(FullPathNext)

FullPathWalking == gp.pc = "walk" /\ "mft" \in DOMAIN gp

LastComponent(g) == g.path[Len(g.path)]

\* The turn of the loop looks at a parent it has not seen before
FreshParent ==
    /\ FullPathWalking
    /\ gp.parent.segment # FILE_NUMBER_ROOT
    /\ gp.parent.segment \notin gp.seen

C29_FullPathEndsNamedFirst ==
    /\ <>(gp.pc = "returned")
    /\ [][FullPathWalking =>
            /\ gp.parent.segment = FILE_NUMBER_ROOT =>
                  gp'.pc = "returned" /\ gp'.path = gp.path
            /\ gp.parent.segment # FILE_NUMBER_ROOT /\ gp.parent.segment \in gp.seen =>
                  gp'.pc = "returned" /\ LastComponent(gp').kind = "recursion"
            /\ FreshParent /\ gp.mft[gp.parent.segment].kind = "named"
                 /\ gp.mft[gp.parent.segment].sequence # gp.parent.sequence =>
                  gp'.pc = "returned" /\ LastComponent(gp').kind = "broken_reference"
            /\ FreshParent /\ gp.mft[gp.parent.segment].kind # "named" =>
                  gp'.pc = "returned" /\ LastComponent(gp').kind = "unknown_segment"
            /\ \A i, j \in 1..Len(gp'.loaded) : gp'.loaded[i] = gp'.loaded[j] => i = j
       ]_vars

\* A cycle of two parents that never reaches the root was walked
C29_CycleWalked ==
    /\ gp.pc = "returned" /\ "mft" \in DOMAIN gp
    /\ gp.loaded = <<16, 17>>
    /\ LastComponent(gp).kind = "recursion"

\* ------------------------------------------------------------------------
\* Compression units of a runlist: stream.py CompressedRunlistStream keeps
\* the runlist cut into units of 2^compression_unit clusters.
\* ------------------------------------------------------------------------

MaxAssigns == 2
MaxRunCount == 3
MaxRunlistLen == 2

\* The compression unit of the streams looked at: units of two clusters
CompressionUnit == 1

\* A run (lcn, count); lcn is None for a sparse run
CuRun(sparse, lcn, count) == [sparse |-> sparse, lcn |-> lcn, count |-> count]

CuRunlists ==
    LET R == { CuRun(sp, IF sp THEN 0 ELSE 10, c) :
                 sp \in BOOLEAN, c \in 1..MaxRunCount }
    IN  UNION { [1..k -> R] : k \in 0..MaxRunlistLen }

\* stream.py lines 52-63: the while loop over one run of the runlist
RECURSIVE CutRun(_, _, _, _, _)
CutRun(sparse, lcn, count, cur, unit) ==
    IF count <= 0 THEN cur
    ELSE LET use == IF count < cur.current THEN count ELSE cur.current
             runs == Append(cur.runs, CuRun(sparse, lcn, use))
             current == cur.current - use
             next == IF current = 0
                       THEN [runs |-> <<>>, current |-> unit,
                             blocks |-> Append(cur.blocks, runs)]
                     ELSE [runs |-> runs, current |-> current, blocks |-> cur.blocks]
         IN  CutRun(sparse, IF sparse THEN lcn ELSE lcn + use, count - use, next, unit)

\* stream.py lines 51-63: for lcn, count in runlist
RECURSIVE CutRunlist(_, _, _)
CutRunlist(runlist, cur, unit) ==
    IF runlist = <<>> THEN cur
    ELSE CutRunlist(Tail(runlist),
                    CutRun(Head(runlist).sparse, Head(runlist).lcn,
                           Head(runlist).count, cur, unit),
                    unit)

\* stream.py lines 43-65: the setter of runlist
SetRunlist(stream, runlist) ==
    LET unit == 2 ^ stream.compression_unit
        cut == CutRunlist(runlist,
                          [runs |-> <<>>, current |-> unit,
                           blocks |-> stream._cu_blocks],
                          unit)
    IN  [stream EXCEPT !._runlist = runlist, !._cu_blocks = cut.blocks]

\* stream.py lines 23-37: __init__; RunlistStream.__init__ assigns runlist
CuConstruct ==
    /\ dr.pc = "new"
    /\ dr' = [SetRunlist([dr EXCEPT !._cu_blocks = <<>>], dr.given)
                 EXCEPT !.pc = "ready"]
    /\ UNCHANGED <<fx, ix, nt, gp, sg, at>>

\* stream.runlist = runlist
CuReplace ==
    /\ dr.pc = "ready" /\ dr.assigns < MaxAssigns
    /\ \E runlist \in CuRunlists :
          dr' = [SetRunlist(dr, runlist) EXCEPT !.assigns = @ + 1, !.last = "replace"]
    /\ UNCHANGED <<fx, ix, nt, gp, sg, at>>

\* ntfs.py line 114: stream.runlist += datarun, the list is extended in place
\* and assigned back
CuExtend ==
    /\ dr.pc = "ready" /\ dr.assigns < MaxAssigns
    /\ \E datarun \in CuRunlists :
          /\ Len(dr._runlist) + Len(datarun) <= MaxRunlistLen + 1
          /\ dr' = [SetRunlist(dr, dr._runlist \o datarun)
                       EXCEPT !.assigns = @ + 1, !.last = "extend"]
    /\ UNCHANGED <<fx, ix, nt, gp, sg, at>>

CuBlocksInit ==
    /\ dr \in { [pc |-> "new", compression_unit |-> CompressionUnit, given |-> r,
                 _runlist |-> <<>>, _cu_blocks |-> <<>>, assigns |-> 0,
                 last |-> "construct"] : r \in CuRunlists }
    /\ fx = Idle /\ ix = Idle /\ nt = Idle /\ gp = Idle /\ sg = Idle /\ at = Idle

CuBlocksNext == CuConstruct \/ CuReplace \/ CuExtend

SpecCuBlocks == CuBlocksInit /\ [][CuBlocksNext]_vars

\* The clusters of a runlist one by one, -1 for a cluster of a sparse run
RECURSIVE ClustersOf(_)
ClustersOf(runlist) ==
    IF runlist = <<>> THEN <<>>
    ELSE [i \in 1..Head(runlist).count |->
             IF Head(runlist).sparse THEN 0 - 1 ELSE Head(runlist).lcn + i - 1]
           \o ClustersOf(Tail(runlist))

CuReady == dr.pc = "ready" /\ "_cu_blocks" \in DOMAIN dr

\* C30: after construction and any later assignments of the runlist, the
\* blocks are the partition of the current runlist into units of
\* 2^compression_unit clusters: each block totals that many clusters, each
\* cluster of the runlist is in one block in order, and no block of an
\* earlier runlist is left.
C30_BlocksPartitionRunlist ==
    CuReady =>
        /\ \A b \in 1..Len(dr._cu_blocks) :
              Len(ClustersOf(dr._cu_blocks[b])) = 2 ^ dr.compression_unit
        /\ ClustersOf(Concat(dr._cu_blocks)) = ClustersOf(dr._runlist)

\* What the construction alone gives: the whole units of the runlist, with
\* the clusters after the last whole unit in no block
C30_BlocksOfConstruction ==
    CuReady /\ dr.assigns = 0 =>
        LET all == ClustersOf(dr._runlist)
            whole == Len(all) - (Len(all) % (2 ^ dr.compression_unit))
        IN  /\ \A b \in 1..Len(dr._cu_blocks) :
                  Len(ClustersOf(dr._cu_blocks[b])) = 2 ^ dr.compression_unit
            /\ ClustersOf(Concat(dr._cu_blocks)) = SubSeq(all, 1, whole)

====
